---- MODULE Spec2Model ----
(***************************************************************************)
(* ZKCookies consent accumulator: the Node development server (server.js)  *)
(* and the Cloudflare Worker (worker/verify.ts, found in vite.config.ts).  *)
(*                                                                         *)
(* JavaScript strings are sequences of character codes: 0..9 are the       *)
(* decimal digits, COMMA is ',', LETTER is a non-numeric character.        *)
(* A handler runs to completion between two await points, so every action  *)
(* below is one such segment of a handler.                                 *)
(***************************************************************************)
EXTENDS Integers, Sequences, FiniteSets

VARIABLES impl, verificationKey, vkeyGlobal, treeState, handlers, last, admitted, arrivals,
          past, client

vars == <<impl, verificationKey, vkeyGlobal, treeState, handlers, last, admitted, arrivals,
          past, client>>

(* ------------------------------ bounds --------------------------------- *)
\* number of POST /verify requests sent to the server in one run; each may
\* carry a nullifier of its own
MaxRequests == 3

(* --------------------------- strings, BigInt --------------------------- *)
COMMA == 10
LETTER == 11
SHA == 12
HEX == 13

\* the value `undefined` (an absent field); it is not a string
Undefined == <<20>>
\* a string that BigInt() cannot parse
NonNumeric == <<LETTER>>
\* the string '0', the empty-tree sentinel root
Sentinel == <<0>>
\* the string '00': numerically zero, but not the sentinel string
DoubleZero == <<0, 0>>

IsDigits(s) == \A i \in 1..Len(s) : s[i] \in 0..9

\* BigInt(s) throws a SyntaxError/TypeError
BigIntThrows(s) == s = Undefined \/ ~IsDigits(s)

RECURSIVE BigInt(_)
\* BigInt(s) for a string of decimal digits (BigInt('') is 0n)
BigInt(s) == IF s = <<>> THEN 0
             ELSE 10 * BigInt(SubSeq(s, 1, Len(s) - 1)) + s[Len(s)]

RECURSIVE NumToString(_)
\* n.toString() of a non-negative number: canonical decimal digits
NumToString(n) == IF n < 10 THEN <<n>> ELSE NumToString(n \div 10) \o <<n % 10>>

RECURSIVE Join(_)
\* inputs.map(x => x.toString()).join(',')
Join(inputs) == IF Len(inputs) = 0 THEN <<>>
                ELSE IF Len(inputs) = 1 THEN NumToString(inputs[1])
                ELSE NumToString(inputs[1]) \o <<COMMA>> \o Join(Tail(inputs))

Min(a, b) == IF a < b THEN a ELSE b

(* ------------------------------ hashes --------------------------------- *)
\* server.js poseidonHash followed by .toString(): the decimal string of the
\* first 64 bits of SHA-256(inputStr). SHA-256 is not computed: the string is
\* represented by its preimage tagged SHA, i.e. as a collision-free hash that
\* never yields '0' on the explored inputs.
PoseidonHashNode(inputs) == <<SHA>> \o Join(inputs)

\* the byte TextEncoder gives for a character of inputStr: an ASCII digit
\* or the comma
AsciiByte(c) == IF c = COMMA THEN 44 ELSE 48 + c

\* worker poseidonHash followed by .toString(): the decimal string of the
\* number whose bytes are the first 8 bytes of inputStr; all bytes are ASCII
\* and non-zero, so the number is represented by that 8-character prefix.
PoseidonHashWorker(inputs) ==
    LET inputStr == Join(inputs)
    IN  <<HEX>> \o SubSeq(inputStr, 1, Min(8, Len(inputStr)))

PoseidonHash(i, inputs) ==
    IF i = "node" THEN PoseidonHashNode(inputs) ELSE PoseidonHashWorker(inputs)

(* --------------------------- accumulator state ------------------------- *)
\* treeState = { root: '0', leaves: new Map(), nullifiers: new Set() }
\* leaves is a function from the inserted commitment strings to index strings
EmptyLeaves == [x \in {} |-> <<>>]

EmptyTree == [root |-> Sentinel, leaves |-> EmptyLeaves, nullifiers |-> {}]

\* treeState.leaves.size
LeavesSize(ts) == Cardinality(DOMAIN ts.leaves)

\* Map.prototype.set: a new key is added, an existing key keeps its place
MapSet(m, k, v) == [x \in (DOMAIN m) \cup {k} |-> IF x = k THEN v ELSE m[x]]

\* mutant: the leaf is stored but the root is not recomputed
UpdateMerkleTreeKeepsRoot(i, ts, commitment) ==
    [ts EXCEPT !.leaves = MapSet(ts.leaves, commitment, NumToString(LeavesSize(ts)))]

\* updateMerkleTree(commitment): the state after the call (its return value
\* is the root of that state)
UpdateMerkleTree(i, ts, commitment) ==
    LET leaves1   == MapSet(ts.leaves, commitment, NumToString(LeavesSize(ts)))
        leafCount == Cardinality(DOMAIN leaves1)
        newRoot   == PoseidonHash(i, <<BigInt(commitment), leafCount>>)
    IN  [ts EXCEPT !.leaves = leaves1, !.root = newRoot]

\* mutant: the replay check is left out
HasNullifierNever(ts, nullifier) == FALSE

\* treeState.nullifiers.has(nullifier)
HasNullifier(ts, nullifier) == nullifier \in ts.nullifiers

\* mutant: the sentinel is not exempt from the root check
RootMismatchNoSentinel(ts, claimedRoot) == claimedRoot # ts.root

\* claimedRoot !== '0' && claimedRoot !== treeState.root
RootMismatch(ts, claimedRoot) == claimedRoot # Sentinel /\ claimedRoot # ts.root

\* mutant: recording a nullifier forgets the ones recorded before
AddNullifierReplaces(ts, nullifier) == [ts EXCEPT !.nullifiers = {nullifier}]

\* mutant: the nullifier is not recorded
AddNullifierDropped(ts, nullifier) == ts

\* treeState.nullifiers.add(nullifier)
AddNullifier(ts, nullifier) == [ts EXCEPT !.nullifiers = @ \cup {nullifier}]

\* mutant: the reset forgets to clear the nullifiers
ResetTreeKeepsNullifiers(ts) == [ts EXCEPT !.root = Sentinel, !.leaves = EmptyLeaves]

\* mutant: the reset forgets to clear the leaves
ResetTreeKeepsLeaves(ts) == [ts EXCEPT !.root = Sentinel, !.nullifiers = {}]

\* the body of POST /reset
ResetTree(ts) == [ts EXCEPT !.root = Sentinel, !.leaves = EmptyLeaves, !.nullifiers = {}]

(* ------------------------------ responses ------------------------------ *)
NoRoot == <<>>

Reply(status, kind, root) == [status |-> status, kind |-> kind, root |-> root]

\* mutant: the nullifier is recorded before the root is checked
CheckAndUpdateEager(i, ts, commitment, nullifier, claimedRoot) ==
    IF HasNullifier(ts, nullifier)
    THEN [ts |-> ts, reply |-> Reply(400, "NullifierReused", NoRoot)]
    ELSE IF RootMismatch(ts, claimedRoot)
    THEN [ts |-> AddNullifier(ts, nullifier), reply |-> Reply(400, "RootMismatch", NoRoot)]
    ELSE LET ts2 == UpdateMerkleTree(i, AddNullifier(ts, nullifier), commitment)
         IN  [ts |-> ts2, reply |-> Reply(200, "Admitted", ts2.root)]

\* mutant: the root is checked before the nullifier
CheckAndUpdateRootFirst(i, ts, commitment, nullifier, claimedRoot) ==
    IF RootMismatch(ts, claimedRoot)
    THEN [ts |-> ts, reply |-> Reply(400, "RootMismatch", NoRoot)]
    ELSE IF HasNullifier(ts, nullifier)
    THEN [ts |-> ts, reply |-> Reply(400, "NullifierReused", NoRoot)]
    ELSE LET ts2 == UpdateMerkleTree(i, AddNullifier(ts, nullifier), commitment)
         IN  [ts |-> ts2, reply |-> Reply(200, "Admitted", ts2.root)]

\* mutant: the response carries the root read before the insertion
CheckAndUpdateOldRoot(i, ts, commitment, nullifier, claimedRoot) ==
    IF HasNullifier(ts, nullifier)
    THEN [ts |-> ts, reply |-> Reply(400, "NullifierReused", NoRoot)]
    ELSE IF RootMismatch(ts, claimedRoot)
    THEN [ts |-> ts, reply |-> Reply(400, "RootMismatch", NoRoot)]
    ELSE LET ts2 == UpdateMerkleTree(i, AddNullifier(ts, nullifier), commitment)
         IN  [ts |-> ts2, reply |-> Reply(200, "Admitted", ts.root)]

\* the check-and-mutate tail shared by both servers: nullifier check, root
\* check, nullifiers.add, updateMerkleTree. Result: the new state and the reply.
CheckAndUpdate(i, ts, commitment, nullifier, claimedRoot) ==
    IF HasNullifier(ts, nullifier)
    THEN [ts |-> ts, reply |-> Reply(400, "NullifierReused", NoRoot)]
    ELSE IF RootMismatch(ts, claimedRoot)
    THEN [ts |-> ts, reply |-> Reply(400, "RootMismatch", NoRoot)]
    ELSE LET ts2 == UpdateMerkleTree(i, AddNullifier(ts, nullifier), commitment)
         IN  [ts |-> ts2, reply |-> Reply(200, "Admitted", ts2.root)]

\* the error text of a reply, as the server words it
ErrorText(i, kind) ==
    IF i = "node"
    THEN CASE kind = "Missing"         -> "Missing publicSignals"
           [] kind = "OffchainFailed"  -> "Offchain proof verification failed"
           [] kind = "ZKFailed"        -> "ZK proof verification failed"
           [] kind = "ZKError"         -> "ZK proof verification error"
           [] kind = "NoProof"         -> "No valid proof provided (neither ZK nor offchain)"
           [] kind = "NullifierReused" -> "Nullifier already used (double-spend detected)"
           [] kind = "RootMismatch"    -> "Merkle root mismatch"
           [] kind = "Internal"        -> "Internal server error"
           [] OTHER                    -> ""
    ELSE CASE kind = "Missing"         -> "Missing proof or publicSignals"
           [] kind = "Internal"        -> "Internal server error"
           [] kind = "MethodNotAllowed" -> "Method not allowed"
           [] kind \in {"KeyError", "ZKFailed", "ZKError", "NullifierReused", "RootMismatch"}
                                       -> "Proof verification failed or nullifier already used"
           [] OTHER                    -> ""

(* ------------------------------ requests ------------------------------- *)
\* offchain.timestamp: <<t>> is the number t, <<>> is a missing timestamp (or
\* one that is not a number): currentTime - timestamp is then NaN
NoOffchain == [present |-> FALSE, nullifier |-> Undefined, commitment |-> Undefined,
               signature |-> Undefined, timestamp |-> <<>>]

\* a request: proof is the verdict groth16.verify gives on (key, publicSignals,
\* proof): "valid" (true), "invalid" (false), "malformed" (it throws), or
\* "absent" (no proof field); body "garbage" is a body that is not JSON
Request(method, body, proof, hasPS, ps, off) ==
    [method |-> method, body |-> body, proof |-> proof, hasPS |-> hasPS,
     publicSignals |-> ps, offchain |-> off]

NoSignals == <<Undefined, Undefined, Undefined, Undefined, Undefined>>

CurrentTimeSignal == <<1, 7>>
DomainSalt == <<5>>

N1 == <<4, 1>>
N2 == <<4, 2>>

CA == <<1, 2, 3, 4, 5, 6, 7, 8, 1>>
CB == <<2, 2, 3, 4, 5, 6, 7, 8, 1>>
Commitments == {CA, CB}

ZkRequest(verdict, c, n, r) ==
    Request("POST", "json", verdict, TRUE, <<CurrentTimeSignal, DomainSalt, c, n, r>>, NoOffchain)

\* a signature of 64 characters, and one of 15
GoodSignature == [k \in 1..64 |-> LETTER]
ShortSignature == [k \in 1..15 |-> LETTER]

\* readings of Math.floor(Date.now() / 1000)
ClockReadings == {1000000}

ClockSkewLimit == 86400

OffchainRequest(proof, salt, c, n, r, offN, offC, sig, ts) ==
    Request("POST", "json", proof, TRUE, <<CurrentTimeSignal, salt, c, n, r>>,
            [present |-> TRUE, nullifier |-> offN, commitment |-> offC,
             signature |-> sig, timestamp |-> ts])

\* The inputs of the k-th request (k = sent + 1). Nullifiers and commitments
\* are interchangeable strings, so the k-th request carries one of the first
\* k nullifiers and the first request the first commitment. Claimed roots are
\* the sentinel, '00', the current root and the roots served before.
NullifiersFor(sent) == {<<4, k>> : k \in 1..(sent + 1)}

CommitmentsFor(sent) == IF sent = 0 THEN {CA} ELSE Commitments

ClaimableRoots(ts, served) == {Sentinel, DoubleZero, ts.root} \cup served

\* requests with a ZK proof: a verified proof over any signals, and an
\* unverifiable or malformed proof
ZkRequests(sent, roots) ==
    {ZkRequest("valid", c, n, r) :
        c \in CommitmentsFor(sent), n \in NullifiersFor(sent), r \in roots}
    \cup {ZkRequest(v, CA, N1, Sentinel) : v \in {"invalid", "malformed"}}

\* requests that carry no usable proof
BareRequests ==
    { Request("POST", "json", "valid", FALSE, NoSignals, NoOffchain),
      ZkRequest("absent", CA, N1, Sentinel) }

\* offchain attestations as the client builds them (root '0'), and others
OffchainRequests(sent, now) ==
    {OffchainRequest("absent", DomainSalt, c, n, Sentinel, n, c, GoodSignature, <<now>>) :
        c \in CommitmentsFor(sent), n \in NullifiersFor(sent)}
    \cup
    { OffchainRequest("absent", DomainSalt, CA, N1, Sentinel, N1, CA, ShortSignature, <<now>>),
      OffchainRequest("absent", DomainSalt, CA, N1, Sentinel, N1, CA, Undefined, <<now>>),
      OffchainRequest("absent", DomainSalt, CA, N1, Sentinel, N1, CA, GoodSignature, <<now - ClockSkewLimit - 1>>),
      OffchainRequest("absent", DomainSalt, CA, N1, Sentinel, N1, CA, GoodSignature, <<now + ClockSkewLimit>>),
      OffchainRequest("absent", DomainSalt, CA, N1, Sentinel, N1, CA, GoodSignature, <<>>),
      OffchainRequest("absent", DomainSalt, CA, N1, Sentinel, Sentinel, CA, GoodSignature, <<now>>),
      OffchainRequest("absent", DomainSalt, CA, N1, Sentinel, N1, NonNumeric, GoodSignature, <<now>>),
      OffchainRequest("absent", DomainSalt, CA, N1, Sentinel, Undefined, CA, GoodSignature, <<now>>),
      OffchainRequest("absent", NonNumeric, CA, N1, Sentinel, N1, CA, GoodSignature, <<now>>),
      OffchainRequest("absent", DomainSalt, CA, N1, <<>>, N1, CA, GoodSignature, <<now>>),
      OffchainRequest("absent", DomainSalt, CA, N1, DoubleZero, N1, CA, GoodSignature, <<now>>),
      OffchainRequest("invalid", DomainSalt, CA, N1, Sentinel, N1, CA, GoodSignature, <<now>>),
      OffchainRequest("absent", DomainSalt, CA, N1, Sentinel, N2, CB, GoodSignature, <<now>>) }

NodeRequests(sent, roots, now) ==
    ZkRequests(sent, roots) \cup BareRequests \cup OffchainRequests(sent, now)

WorkerRequests(sent, roots) ==
    ZkRequests(sent, roots) \cup BareRequests
    \cup { Request("OPTIONS", "json", "absent", FALSE, NoSignals, NoOffchain),
           Request("GET", "json", "absent", FALSE, NoSignals, NoOffchain),
           Request("POST", "garbage", "absent", FALSE, NoSignals, NoOffchain) }

Abs(x) == IF x < 0 THEN -x ELSE x

\* verifyOffchainSignature; now is the clock reading it takes
VerifyOffchainSignature(now, signature, domainSalt, newConsent, timestamp, commitment, nullifier) ==
    IF timestamp # <<>> /\ Abs(now - timestamp[1]) > ClockSkewLimit THEN FALSE
    ELSE IF BigIntThrows(commitment) \/ BigIntThrows(nullifier) THEN FALSE
    ELSE IF BigInt(commitment) = 0 \/ BigInt(nullifier) = 0 THEN FALSE
    ELSE IF signature = Undefined \/ Len(signature) < 16 THEN FALSE
    ELSE TRUE

\* the browser side when no client takes part in the run
NoClient == [pc |-> "none"]

(* ------------------------------- state --------------------------------- *)
\* impl            which server runs: "node" (server.js) or "worker"
\* verificationKey the module-level verificationKey: NoKey (null) or TheKey
\* vkeyGlobal      worker only: globalThis.VERIFICATION_KEY is set
\* treeState       the accumulator
\* handlers        the suspended handler activations: pc is the await each
\*                 waits at, req its request, out what it has decided
\* last            the last response sent, with the facts of its decision
\* admitted        (history) the transitions admitted since start or reset
\* arrivals        (history) the number of POST /verify requests received
\* past            (history, kept in the runs of SpecNode only) the nullifiers
\*                 of the requests rejected for their proof or their root
\*                 since start or reset, and the nullifiers admitted before
\*                 the last reset
\* client          the browser side: see the client section
NoKey == "null"
TheKey == "vkey"

NoRequest == Request("NONE", "json", "absent", FALSE, NoSignals, NoOffchain)

\* a decision: the reply, and (history) the facts at the moment it was taken:
\* nullifier, commitment, claimedRoot   the values the handler extracted
\*              (Undefined when it did not get that far)
\* verified     the proof or attestation passed verification
\* replayed     a transition with this nullifier had been admitted since
\*              start or the last reset
\* rootOK       the claimed root was '0' or the root before the segment
\* stale        the claimed root is not '0' and was the root before an
\*              earlier admission (since start or the last reset)
\* changed      the segment changed treeState
\* rivalN/R     a request with the same nullifier / the same non-sentinel
\*              claimed root (and another nullifier and commitment) was
\*              admitted while this one was in flight
\* treeSize     the treeSize a GET /health or POST /reset reports
\* malformed    the request had no proof or attestation, or its
\*              publicSignals were not five
\*              numeric strings
Decision(reply, nullifier, commitment, claimedRoot, verified, replayed, rootOK, stale, changed, rivalN, rivalR) ==
    [reply |-> reply, nullifier |-> nullifier, commitment |-> commitment,
     claimedRoot |-> claimedRoot, verified |-> verified, replayed |-> replayed,
     rootOK |-> rootOK, stale |-> stale, changed |-> changed,
     rivalN |-> rivalN, rivalR |-> rivalR, treeSize |-> -1, malformed |-> FALSE]

NoDecision ==
    Decision(Reply(0, "none", NoRoot), Undefined, Undefined, Undefined,
             FALSE, FALSE, FALSE, FALSE, FALSE, FALSE, FALSE)

Idle == [pc |-> "idle", req |-> NoRequest, rivalN |-> FALSE, rivalR |-> FALSE,
         out |-> NoDecision]

\* two handler activations can be suspended at once: the concurrency the
\* server is specified for is that of a pair of requests in flight
Handlers == {1, 2}

\* the values a handler extracts from its request (server.js 110-112 and
\* 148-150, worker 142-144); publicSignals[4] || '0' in the offchain branch
NewConsentCommitment(req) ==
    IF req.offchain.present THEN req.offchain.commitment ELSE req.publicSignals[3]

NullifierOf(req) ==
    IF req.offchain.present THEN req.offchain.nullifier ELSE req.publicSignals[4]

ClaimedRoot(req) ==
    IF req.offchain.present /\ req.publicSignals[5] \in {<<>>, Undefined}
    THEN Sentinel
    ELSE req.publicSignals[5]

\* the entry the admission of req adds to the history
Admission(req, ts) ==
    [nullifier |-> NullifierOf(req), commitment |-> NewConsentCommitment(req),
     root |-> ts.root]

\* (history) the request carries neither a proof nor an offchain
\* attestation, or its publicSignals are absent or not five strings of
\* decimal digits
Malformed(req) ==
    \/ req.proof = "absent" /\ ~req.offchain.present
    \/ ~req.hasPS
    \/ \E k \in 1..5 : \/ req.publicSignals[k] \in {Undefined, <<>>}
                        \/ ~IsDigits(req.publicSignals[k])

\* (history) the decision of a segment that took treeState from ts to out.ts
\* for request req of handler slot hd; extracted: the request carries the
\* signals the handler extracts
Decide(hd, req, ts, out, extracted, verified) ==
    [Decision(out.reply,
             IF extracted THEN NullifierOf(req) ELSE Undefined,
             IF extracted THEN NewConsentCommitment(req) ELSE Undefined,
             IF extracted THEN ClaimedRoot(req) ELSE Undefined,
             verified,
             extracted /\ \E k \in 1..Len(admitted) : admitted[k].nullifier = NullifierOf(req),
             extracted /\ ClaimedRoot(req) \in {Sentinel, ts.root},
             /\ extracted
             /\ ClaimedRoot(req) # Sentinel
             /\ \E k \in 1..(Len(admitted) - 1) : admitted[k].root = ClaimedRoot(req),
             out.ts # ts,
             hd.rivalN, hd.rivalR) EXCEPT !.malformed = Malformed(req)]

\* (history) the handlers in flight learn of the admission of req
NoteRivals(hs, req, isAdmitted) ==
    [h \in Handlers |->
        IF ~isAdmitted \/ hs[h].pc \in {"idle", "update"} \/ ~hs[h].req.hasPS THEN hs[h]
        ELSE [hs[h] EXCEPT
                !.rivalN = @ \/ NullifierOf(hs[h].req) = NullifierOf(req),
                !.rivalR = @ \/ (/\ ClaimedRoot(hs[h].req) = ClaimedRoot(req)
                                 /\ ClaimedRoot(req) # Sentinel
                                 /\ NullifierOf(hs[h].req) # NullifierOf(req)
                                 /\ NewConsentCommitment(hs[h].req) # NewConsentCommitment(req))]]

\* the roots the server has returned since start or reset
ServedRoots == {admitted[k].root : k \in 1..Len(admitted)}

\* handler activations are interchangeable: a request takes the first free one
FreeHandler ==
    IF \E h \in Handlers : handlers[h].pc = "idle"
    THEN CHOOSE h \in Handlers :
            /\ handlers[h].pc = "idle"
            /\ \A g \in Handlers : handlers[g].pc = "idle" => h <= g
    ELSE 0

\* (history) past when it is not kept, and at the start of a run that keeps it
NoPast == [on |-> FALSE, rejected |-> {}, before |-> {}]

EmptyPast == [on |-> TRUE, rejected |-> {}, before |-> {}]

\* (history) past after the response of decision d
Observe(p, d) ==
    IF p.on /\ d.reply.kind \in {"ZKFailed", "ZKError", "OffchainFailed", "RootMismatch"}
            /\ d.nullifier # Undefined
    THEN [p EXCEPT !.rejected = @ \cup {d.nullifier}]
    ELSE p

\* (history) past after a reset that found the admissions log
ObserveReset(p, log) ==
    IF p.on
    THEN [p EXCEPT !.rejected = {},
                   !.before = @ \cup {log[k].nullifier : k \in 1..Len(log)}]
    ELSE p

\* a handler sends its response and ends; the accumulator and the history
\* take the segment's result
Finish(h, req, out, extracted, verified) ==
    /\ last' = Decide(handlers[h], req, treeState, out, extracted, verified)
    /\ past' = Observe(past, last')
    /\ treeState' = out.ts
    /\ admitted' = IF out.reply.kind = "Admitted"
                   THEN Append(admitted, Admission(req, out.ts))
                   ELSE admitted
    /\ handlers' = NoteRivals([handlers EXCEPT ![h] = Idle], req,
                              out.reply.kind = "Admitted")

Init ==
    /\ impl \in {"node", "worker"}
    /\ verificationKey \in (IF impl = "node" THEN {NoKey, TheKey} ELSE {NoKey})
    /\ vkeyGlobal \in (IF impl = "node" THEN {FALSE} ELSE BOOLEAN)
    /\ treeState = EmptyTree
    /\ handlers = [h \in Handlers |-> Idle]
    /\ last = NoDecision
    /\ admitted = <<>>
    /\ arrivals = 0
    /\ past = NoPast
    /\ client = NoClient

(* --------------------------- Node: server.js --------------------------- *)
\* the offchain attestation of req passes verifyOffchainSignature
OffchainVerified(req, now) ==
    VerifyOffchainSignature(now, req.offchain.signature, BigInt(req.publicSignals[2]), 255,
                            req.offchain.timestamp, NewConsentCommitment(req),
                            NullifierOf(req))

\* mutant: the ZK branch is tried before the offchain branch
NodeReceiveProofFirst(ts, key, req, now) ==
    IF ~req.hasPS
    THEN [next |-> "done", ts |-> ts, reply |-> Reply(400, "Missing", NoRoot)]
    ELSE IF req.proof # "absent" /\ key # NoKey
    THEN [next |-> "verify", ts |-> ts, reply |-> Reply(0, "none", NoRoot)]
    ELSE IF req.offchain.present
    THEN IF \/ req.offchain.nullifier = Undefined
            \/ req.offchain.commitment = Undefined
            \/ BigIntThrows(req.publicSignals[2])
         THEN [next |-> "done", ts |-> ts, reply |-> Reply(500, "Internal", NoRoot)]
         ELSE IF ~OffchainVerified(req, now)
         THEN [next |-> "done", ts |-> ts, reply |-> Reply(400, "OffchainFailed", NoRoot)]
         ELSE LET out == CheckAndUpdate("node", ts, NewConsentCommitment(req),
                                        NullifierOf(req), ClaimedRoot(req))
              IN  [next |-> "done", ts |-> out.ts, reply |-> out.reply]
    ELSE [next |-> "done", ts |-> ts, reply |-> Reply(400, "NoProof", NoRoot)]

\* POST /verify up to its first await (or to its response): what the segment
\* decides. next = "verify": groth16.verify has been called and is awaited.
NodeReceive(ts, key, req, now) ==
    IF ~req.hasPS
    THEN [next |-> "done", ts |-> ts, reply |-> Reply(400, "Missing", NoRoot)]
    ELSE IF req.offchain.present
    THEN \* nullifier.substring / commitment.substring of a non-string, or
         \* BigInt(publicSignals[1]) of a non-number, throw: outer catch, 500
         IF \/ req.offchain.nullifier = Undefined
            \/ req.offchain.commitment = Undefined
            \/ BigIntThrows(req.publicSignals[2])
         THEN [next |-> "done", ts |-> ts, reply |-> Reply(500, "Internal", NoRoot)]
         ELSE IF ~OffchainVerified(req, now)
         THEN [next |-> "done", ts |-> ts, reply |-> Reply(400, "OffchainFailed", NoRoot)]
         ELSE LET out == CheckAndUpdate("node", ts, NewConsentCommitment(req),
                                        NullifierOf(req), ClaimedRoot(req))
              IN  [next |-> "done", ts |-> out.ts, reply |-> out.reply]
    ELSE IF req.proof # "absent" /\ key # NoKey
    THEN [next |-> "verify", ts |-> ts, reply |-> Reply(0, "none", NoRoot)]
    ELSE [next |-> "done", ts |-> ts, reply |-> Reply(400, "NoProof", NoRoot)]

\* NodeAfterVerify without the try around groth16.verify: its exception
\* reaches the handler's outer catch
NodeAfterVerifyUncaught(ts, req) ==
    IF req.proof = "malformed"
    THEN [ts |-> ts, reply |-> Reply(500, "Internal", NoRoot)]
    ELSE IF req.proof = "invalid"
    THEN [ts |-> ts, reply |-> Reply(400, "ZKFailed", NoRoot)]
    ELSE CheckAndUpdate("node", ts, NewConsentCommitment(req), NullifierOf(req),
                        ClaimedRoot(req))

\* POST /verify after await groth16.verify
NodeAfterVerify(ts, req) ==
    IF req.proof = "malformed"
    THEN [ts |-> ts, reply |-> Reply(400, "ZKError", NoRoot)]
    ELSE IF req.proof = "invalid"
    THEN [ts |-> ts, reply |-> Reply(400, "ZKFailed", NoRoot)]
    ELSE CheckAndUpdate("node", ts, NewConsentCommitment(req), NullifierOf(req),
                        ClaimedRoot(req))

\* POST /verify with body req, received by handler activation h at clock
\* reading now
NodePost(h, req, now) ==
    LET out == NodeReceive(treeState, verificationKey, req, now)
    IN  IF out.next = "verify"
        THEN /\ handlers' = [handlers EXCEPT ![h] =
                               [Idle EXCEPT !.pc = "verify", !.req = req]]
             /\ UNCHANGED <<treeState, last, admitted, past>>
        ELSE Finish(h, req, out,
                    req.hasPS /\ req.offchain.present,
                    /\ req.hasPS /\ req.offchain.present
                    /\ req.offchain.nullifier # Undefined
                    /\ req.offchain.commitment # Undefined
                    /\ ~BigIntThrows(req.publicSignals[2])
                    /\ OffchainVerified(req, now))

NodeVerify(h) ==
    /\ impl = "node"
    /\ h = FreeHandler
    /\ arrivals < MaxRequests
    /\ \E now \in ClockReadings :
       \E req \in NodeRequests(arrivals, ClaimableRoots(treeState, ServedRoots), now) :
         NodePost(h, req, now)
    /\ arrivals' = arrivals + 1
    /\ UNCHANGED <<client, impl, verificationKey, vkeyGlobal>>

NodeVerifyResume(h) ==
    /\ impl = "node"
    /\ handlers[h].pc = "verify"
    /\ LET req == handlers[h].req
       IN  Finish(h, req, NodeAfterVerify(treeState, req), TRUE, req.proof = "valid")
    /\ UNCHANGED <<client, impl, verificationKey, vkeyGlobal, arrivals>>

\* GET /health
NodeHealth ==
    /\ impl = "node"
    /\ last' = [NoDecision EXCEPT !.reply = Reply(200, "Health", NoRoot),
                                  !.treeSize = LeavesSize(treeState)]
    /\ UNCHANGED <<client, impl, verificationKey, vkeyGlobal, treeState, handlers, admitted, arrivals, past>>

\* POST /reset
NodeReset ==
    /\ impl = "node"
    /\ treeState' = ResetTree(treeState)
    /\ last' = [NoDecision EXCEPT !.reply = Reply(200, "Reset", NoRoot),
                                  !.changed = (treeState' # treeState),
                                  !.treeSize = 0]
    /\ admitted' = <<>>
    /\ past' = ObserveReset(past, admitted)
    /\ handlers' = [h \in Handlers |-> [handlers[h] EXCEPT !.rivalN = FALSE, !.rivalR = FALSE]]
    /\ UNCHANGED <<client, impl, verificationKey, vkeyGlobal, arrivals>>

(* ------------------- Worker: worker/verify.ts -------------------------- *)
\* verifyAndUpdate after await groth16.verify, up to await updateMerkleTree:
\* updateMerkleTree is an async function without an await of its own, so its
\* whole body runs when it is called, before verifyAndUpdate is suspended
WorkerAfterVerify(ts, req) ==
    IF req.proof = "malformed"
    THEN [ts |-> ts, reply |-> Reply(400, "ZKError", NoRoot)]
    ELSE IF req.proof = "invalid"
    THEN [ts |-> ts, reply |-> Reply(400, "ZKFailed", NoRoot)]
    ELSE CheckAndUpdate("worker", ts, NewConsentCommitment(req), NullifierOf(req),
                        ClaimedRoot(req))

\* fetch(request) up to the call of groth16.verify or of the key's fetch, or
\* to an early response. The awaits of request.json() and of an already
\* resolved loadVerificationKey() lie in this segment: no step of the worker
\* reads or writes shared state while they are pending, so they are taken
\* with the arrival.
WorkerFetch(h) ==
    /\ impl = "worker"
    /\ h = FreeHandler
    /\ arrivals < MaxRequests
    /\ \E req \in WorkerRequests(arrivals, ClaimableRoots(treeState, ServedRoots)) :
         IF req.method = "OPTIONS"
         THEN /\ Finish(h, req, [ts |-> treeState, reply |-> Reply(204, "Preflight", NoRoot)],
                        FALSE, FALSE)
              /\ UNCHANGED verificationKey
         ELSE IF req.method # "POST"
         THEN /\ Finish(h, req, [ts |-> treeState, reply |-> Reply(405, "MethodNotAllowed", NoRoot)],
                        FALSE, FALSE)
              /\ UNCHANGED verificationKey
         ELSE IF req.body = "garbage"
         THEN /\ Finish(h, req, [ts |-> treeState, reply |-> Reply(500, "Internal", NoRoot)],
                        FALSE, FALSE)
              /\ UNCHANGED verificationKey
         ELSE IF req.proof = "absent" \/ ~req.hasPS
         THEN /\ Finish(h, req, [ts |-> treeState, reply |-> Reply(400, "Missing", NoRoot)],
                        FALSE, FALSE)
              /\ UNCHANGED verificationKey
         ELSE /\ verificationKey' = IF verificationKey = NoKey /\ vkeyGlobal
                                    THEN TheKey ELSE verificationKey
              /\ handlers' = [handlers EXCEPT ![h] =
                                [Idle EXCEPT !.req = req,
                                             !.pc = IF verificationKey' = NoKey
                                                    THEN "fetchkey" ELSE "verify"]]
              /\ UNCHANGED <<treeState, last, admitted, past>>
    /\ arrivals' = arrivals + 1
    /\ UNCHANGED <<client, impl, vkeyGlobal>>

\* loadVerificationKey after its fetch of the key: the key is stored and
\* groth16.verify called, or 'Verification key not found' is thrown and
\* caught by verifyAndUpdate
WorkerFetchKey(h) ==
    /\ impl = "worker"
    /\ handlers[h].pc = "fetchkey"
    /\ \E ok \in BOOLEAN :
         IF ok
         THEN /\ verificationKey' = TheKey
              /\ handlers' = [handlers EXCEPT ![h].pc = "verify"]
              /\ UNCHANGED <<treeState, last, admitted, past>>
         ELSE /\ Finish(h, handlers[h].req,
                        [ts |-> treeState, reply |-> Reply(400, "KeyError", NoRoot)],
                        FALSE, FALSE)
              /\ UNCHANGED verificationKey
    /\ UNCHANGED <<client, impl, vkeyGlobal, arrivals>>

\* verifyAndUpdate after await groth16.verify
WorkerVerify(h) ==
    /\ impl = "worker"
    /\ handlers[h].pc = "verify"
    /\ LET req == handlers[h].req
           out == WorkerAfterVerify(treeState, req)
       IN  IF out.reply.kind = "Admitted"
           THEN /\ treeState' = out.ts
                /\ admitted' = Append(admitted, Admission(req, out.ts))
                /\ handlers' = NoteRivals(
                      [handlers EXCEPT ![h].pc = "update",
                                       ![h].out = Decide(handlers[h], req, treeState, out,
                                                         TRUE, TRUE)],
                      req, TRUE)
                /\ UNCHANGED <<last, past>>
           ELSE Finish(h, req, out, TRUE, req.proof = "valid")
    /\ UNCHANGED <<client, impl, verificationKey, vkeyGlobal, arrivals>>

\* verifyAndUpdate after await updateMerkleTree: the 200 response
WorkerUpdate(h) ==
    /\ impl = "worker"
    /\ handlers[h].pc = "update"
    /\ last' = handlers[h].out
    /\ handlers' = [handlers EXCEPT ![h] = Idle]
    /\ UNCHANGED <<client, impl, verificationKey, vkeyGlobal, treeState, admitted, arrivals, past>>

Next ==
    \/ \E h \in Handlers : NodeVerify(h)
    \/ \E h \in Handlers : NodeVerifyResume(h)
    \/ NodeHealth
    \/ NodeReset
    \/ \E h \in Handlers : WorkerFetch(h)
    \/ \E h \in Handlers : WorkerFetchKey(h)
    \/ \E h \in Handlers : WorkerVerify(h)
    \/ \E h \in Handlers : WorkerUpdate(h)

Spec == Init /\ [][Next]_vars

(* ------------- the Node server with the history of its answers --------- *)
InitNode ==
    /\ impl = "node"
    /\ verificationKey \in {NoKey, TheKey}
    /\ vkeyGlobal = FALSE
    /\ treeState = EmptyTree
    /\ handlers = [h \in Handlers |-> Idle]
    /\ last = NoDecision
    /\ admitted = <<>>
    /\ arrivals = 0
    /\ past = EmptyPast
    /\ client = NoClient

NextNode ==
    \/ \E h \in Handlers : NodeVerify(h)
    \/ \E h \in Handlers : NodeVerifyResume(h)
    \/ NodeHealth
    \/ NodeReset

SpecNode == InitNode /\ [][NextNode]_vars

(* --------------------- the circuit: consent.circom --------------------- *)
\* A signal is an element of the scalar field. The integer x (negative or
\* not, far smaller than the field's prime p) stands for x mod p, and is kept
\* in two limbs, x = hi * LIMB + lo with 0 <= lo < LIMB, so that 2^32 and
\* 2^33 can be written. A negative x is the field element p - |x|, which has
\* more than 250 bits.
LIMB == 65536

ConsentBits == 8

TimeBits == 32

TWO_YEARS == 63072000

Signal(x) == [hi |-> x \div LIMB, lo |-> x % LIMB]

Carry(hi, lo) == [hi |-> hi + (lo \div LIMB), lo |-> lo % LIMB]

FieldAdd(a, b) == Carry(a.hi + b.hi, a.lo + b.lo)

FieldSub(a, b) == Carry(a.hi - b.hi, a.lo - b.lo)

\* the signal 1 << n
Pow2(n) == IF n >= 16 THEN [hi |-> 2 ^ (n - 16), lo |-> 0] ELSE [hi |-> 0, lo |-> 2 ^ n]

\* circomlib Num2Bits(n): its constraints have a solution iff the signal is
\* a number below 2^n
Num2BitsFits(n, x) ==
    /\ x.hi >= 0
    /\ IF n >= 16 THEN x.hi < 2 ^ (n - 16) ELSE x.hi = 0 /\ x.lo < 2 ^ n

\* bit k of a signal that Num2Bits decomposed
Num2BitsOut(k, x) ==
    IF k >= 16 THEN (x.hi \div (2 ^ (k - 16))) % 2 ELSE (x.lo \div (2 ^ k)) % 2

\* circomlib LessThan(n): n2b = Num2Bits(n+1); n2b.in <== in[0] + (1<<n) - in[1];
\* out <== 1 - n2b.out[n]. sat: the constraints have a solution.
LessThan(n, in0, in1) ==
    LET v == FieldSub(FieldAdd(in0, Pow2(n)), in1)
    IN  [sat |-> Num2BitsFits(n + 1, v), out |-> 1 - Num2BitsOut(n, v)]

\* LessEqThan letting through one more than its bound
LessEqThanLoose(n, in0, in1) == LessThan(n, in0, FieldAdd(in1, Signal(2)))

\* GreaterEqThan refusing equal inputs
GreaterEqThanStrict(n, in0, in1) == LessThan(n, in1, in0)

\* circomlib LessEqThan(n): LessThan(n) on in[0] and in[1] + 1
LessEqThan(n, in0, in1) == LessThan(n, in0, FieldAdd(in1, Signal(1)))

\* circomlib GreaterEqThan(n): LessThan(n) on in[1] and in[0] + 1
GreaterEqThan(n, in0, in1) == LessThan(n, in1, FieldAdd(in0, Signal(1)))

\* consentCheck.in[0] <== newConsent; consentCheck.in[1] <== oldConsent;
\* consentCheck.out === 1
ConsentCheck(oldConsent, newConsent) ==
    LET c == GreaterEqThan(ConsentBits, Signal(newConsent), Signal(oldConsent))
    IN  c.sat /\ c.out = 1

\* timeCheck.in[0] <== currentTime - timestamp; timeCheck.in[1] <== TWO_YEARS;
\* timeCheck.out === 1 (currentTime and timestamp are signals)
TimeCheck(currentTime, timestamp) ==
    LET c == LessEqThan(TimeBits, FieldSub(currentTime, timestamp), Signal(TWO_YEARS))
    IN  c.sat /\ c.out = 1

(* ------------------- the client: zk.ts and banner.ts ------------------- *)
\* consent bitfields a caller passes to generateProof
ConsentValues == {0, 255}

\* readings of the browser's clock
ClientClocks == ClockReadings

\* currentTime - timestamp of the consent a caller passes: given now, as
\* banner.ts does, or more than two years ago
ConsentAges == {0, TWO_YEARS + 1}

\* computePoseidon([identitySecret, domainSalt]).toString() for the one
\* identity of the run
ClientNullifier == N1

\* computePoseidon([newConsent, timestamp, identitySecret]).toString(): the
\* hash is not computed; the string is a nine-digit code of its inputs that
\* differs for the consents and timestamps explored
ClientCommitment(newConsent, timestamp) ==
    NumToString(100000000 + newConsent * 100000 + (IF timestamp < 0 THEN 50000 ELSE 0)
                + ((Abs(timestamp) \div 1000000) % 100) * 100 + (Abs(timestamp) % 100))

\* verifyProof(proof, verificationKey): verdict is what groth16.verify does
\* with the proof ("malformed": it throws, caught, false)
VerifyProof(verdict) == IF verdict = "malformed" THEN FALSE ELSE verdict = "valid"

\* snarkjs.groth16.fullProve on the circuit: witness generation fails when a
\* constraint does not hold. The hash and membership constraints are taken
\* to hold for the witness the client built.
FullProveSucceeds(oldConsent, newConsent, currentTime, timestamp) ==
    ConsentCheck(oldConsent, newConsent) /\ TimeCheck(Signal(currentTime), Signal(timestamp))

\* generateProof whose catch rethrows instead of falling back
GenerateProofNoFallback(salt, nullifier, newCommitment, oldConsent, newConsent, timestamp, currentTime, root, artifacts, subtle) ==
    IF artifacts /\ FullProveSucceeds(oldConsent, newConsent, currentTime, timestamp)
    THEN [thrown |-> FALSE, mode |-> "zk",
          body |-> Request("POST", "json", "valid", TRUE,
                           <<CurrentTimeSignal, salt, newCommitment, nullifier, root>>,
                           NoOffchain)]
    ELSE [thrown |-> TRUE, mode |-> "none", body |-> NoRequest]

\* generateProof from line 493 on, with the strings of domainSalt and of the
\* nullifier and the commitment of lines 490-491. artifacts: both fetches of
\* /consent.wasm and /consent_final.zkey are ok; subtle: crypto.subtle
\* signs; root: the string of merklePath?.root || 0n. Result: the proof
\* object, or thrown.
GenerateProofWith(salt, nullifier, newCommitment, oldConsent, newConsent, timestamp, currentTime, root, artifacts, subtle) ==
    IF artifacts /\ FullProveSucceeds(oldConsent, newConsent, currentTime, timestamp)
    THEN [thrown |-> FALSE, mode |-> "zk",
          body |-> Request("POST", "json", "valid", TRUE,
                           <<CurrentTimeSignal, salt, newCommitment, nullifier, root>>,
                           NoOffchain)]
    ELSE IF subtle
    THEN [thrown |-> FALSE, mode |-> "offchain",
          body |-> OffchainRequest("absent", salt, newCommitment, nullifier, root,
                                   nullifier, newCommitment, GoodSignature, <<timestamp>>)]
    ELSE [thrown |-> TRUE, mode |-> "none", body |-> NoRequest]

\* generateProof(domainSalt, oldConsent, newConsent, oldTimestamp, timestamp,
\* currentTime, merklePath) of the one identity and domain of SpecClient
GenerateProof(oldConsent, newConsent, timestamp, currentTime, root, artifacts, subtle) ==
    GenerateProofWith(DomainSalt, ClientNullifier, ClientCommitment(newConsent, timestamp),
                      oldConsent, newConsent, timestamp, currentTime, root, artifacts, subtle)

\* client: pc = "idle" before a call, "proved" with the proof object in
\* hand, "thrown" when generateProof threw, "sent" while the POST is pending,
\* "done" with the server's reply
IdleClient ==
    [pc |-> "idle", oldConsent |-> 0, newConsent |-> 0, timestamp |-> 0, currentTime |-> 0,
     artifacts |-> FALSE, mode |-> "none", body |-> NoRequest, reply |-> Reply(0, "none", NoRoot)]

\* a caller runs generateProof
ClientGenerateProof ==
    /\ client.pc \in {"idle", "thrown", "done"}
    /\ arrivals < MaxRequests
    /\ \E oldConsent \in ConsentValues, newConsent \in ConsentValues,
          currentTime \in ClientClocks, age \in ConsentAges,
          artifacts \in BOOLEAN, subtle \in BOOLEAN, path \in BOOLEAN :
         LET timestamp == currentTime - age
             root == IF path THEN treeState.root ELSE Sentinel
             out == GenerateProof(oldConsent, newConsent, timestamp, currentTime, root,
                                  artifacts, subtle)
         IN  client' = [IdleClient EXCEPT
                          !.pc = IF out.thrown THEN "thrown" ELSE "proved",
                          !.oldConsent = oldConsent, !.newConsent = newConsent,
                          !.timestamp = timestamp, !.currentTime = currentTime,
                          !.artifacts = artifacts, !.mode = out.mode, !.body = out.body]
    /\ arrivals' = arrivals + 1
    /\ UNCHANGED <<impl, verificationKey, vkeyGlobal, treeState, handlers, last, admitted, past>>

\* the caller POSTs the proof object to the Node server's /verify
ClientSubmit(h) ==
    /\ client.pc = "proved"
    /\ h = FreeHandler
    /\ \E now \in ClockReadings : NodePost(h, client.body, now)
    /\ client' = [client EXCEPT !.pc = "sent"]
    /\ UNCHANGED <<impl, verificationKey, vkeyGlobal, arrivals>>

\* the response reaches the caller
ClientResponse ==
    /\ client.pc = "sent"
    /\ \A h \in Handlers : handlers[h].pc = "idle"
    /\ client' = [client EXCEPT !.pc = "done", !.reply = last.reply]
    /\ UNCHANGED <<impl, verificationKey, vkeyGlobal, treeState, handlers, last, admitted,
                   arrivals, past>>

InitClient ==
    /\ impl = "node"
    /\ verificationKey \in {NoKey, TheKey}
    /\ vkeyGlobal = FALSE
    /\ treeState = EmptyTree
    /\ handlers = [h \in Handlers |-> Idle]
    /\ last = NoDecision
    /\ admitted = <<>>
    /\ arrivals = 0
    /\ past = NoPast
    /\ client = IdleClient

NextClient ==
    \/ ClientGenerateProof
    \/ \E h \in Handlers : ClientSubmit(h)
    \/ \E h \in Handlers : NodeVerifyResume(h)
    \/ ClientResponse

SpecClient == InitClient /\ [][NextClient]_vars

(* ------------ the page: main.ts, banner.ts and zk.ts in a tab ----------- *)
\* In the runs of SpecBrowser the variable client is the browser tab:
\* secretEntry    localStorage 'zkcookies_identity_secret': 0 when absent,
\*                else the secret stored (secrets are numbered as generated)
\* hiddenEntry    localStorage 'zkcookies_banner_hidden' is 'true'
\* identitySecret the ZKCookieBanner instance's field (0: null)
\* domainSalt     DOMAIN_SALT of this page load
\* circomlib      import('circomlib') gives a poseidon (else the fallback)
\* artifacts      /consent.wasm and /consent_final.zkey are served
\* subtle         crypto.subtle signs
\* storageOk      localStorage.setItem does not throw
\* display        the banner element's style.display
\* flows          the handleAccept activations of this page
\* reset          a reset's fetch of /reset: "none", "pending", "answered"
\* loads, secrets the page loads and the secrets generated so far
\* (history) hiddenAtLoad, gen (the last generateProof call), returned (the
\* secret the last getOrCreateIdentitySecret returned, 0 before any),
\* erased (the secrets whose entry was removed), accepted (config.onAccept
\* was invoked on this page)
MaxLoads == 2

Flows == {1, 2}

IdleFlow == [pc |-> "idle", body |-> NoRequest, handler |-> 0, secret |-> 0,
             reply |-> Reply(0, "none", NoRoot)]

NoGen == [called |-> FALSE, saved |-> FALSE, thrown |-> FALSE, mode |-> "none",
          body |-> NoRequest]

\* crypto.getRandomValues: the n-th value drawn differs from those before
RandomValue(n) == n

\* the decimal string of the n-th salt
SaltString(n) == NumToString(n)

\* computePoseidon([identitySecret, domainSalt]).toString() for the secret
\* and the salt of those numbers, with the hash getPoseidon supplies: the
\* poseidon of circomlib gives one string per pair. An identity secret is 32
\* random bytes, 70 and more decimal digits, and createFallbackPoseidon
\* keeps the first 16 characters of the inputs joined by commas (see
\* FallbackPoseidon): a part of the secret, and nothing of the salt.
PageNullifier(circomlib, secret, salt) ==
    IF circomlib THEN <<3, secret, salt>> ELSE <<9, secret>>

\* computePoseidon([newConsent, timestamp, identitySecret]).toString(): one
\* string per triple (the fallback keeps the consent, the timestamp and the
\* leading digit of the secret, which the secret's number stands for)
PageCommitment(secret, newConsent, timestamp) ==
    NumToString(BigInt(ClientCommitment(newConsent, timestamp)) + secret * 200000000)

\* loadIdentitySecret, `new CookieBanner`, DOMAIN_SALT and banner.show() of
\* a page load
PageLoad(b) ==
    [b EXCEPT !.identitySecret = b.secretEntry,
              !.domainSalt = RandomValue(b.loads + 1),
              !.display = "block",
              !.flows = [f \in Flows |-> IdleFlow],
              !.reset = "none",
              !.loads = @ + 1,
              !.hiddenAtLoad = b.hiddenEntry,
              !.accepted = FALSE]

NewBrowser(circomlib, artifacts, subtle, storageOk) ==
    PageLoad([pc |-> "page", secretEntry |-> 0, hiddenEntry |-> FALSE, identitySecret |-> 0,
              domainSalt |-> 0, circomlib |-> circomlib, artifacts |-> artifacts,
              subtle |-> subtle, storageOk |-> storageOk, display |-> "none",
              flows |-> [f \in Flows |-> IdleFlow], reset |-> "none", loads |-> 0,
              secrets |-> 0, hiddenAtLoad |-> FALSE, gen |-> NoGen, returned |-> 0,
              erased |-> {}, accepted |-> FALSE])

\* getOrCreateIdentitySecret that generates a secret at every call
GetOrCreateIdentitySecretAlways(b, saveOk) ==
    LET secret == RandomValue(b.secrets + 1)
    IN  [b |-> [b EXCEPT !.identitySecret = secret,
                         !.secretEntry = IF saveOk THEN secret ELSE @,
                         !.secrets = @ + 1,
                         !.returned = IF saveOk THEN secret ELSE @],
         thrown |-> ~saveOk]

\* getOrCreateIdentitySecret; saveOk: localStorage.setItem does not throw.
\* The field is assigned before saveIdentitySecret runs.
GetOrCreateIdentitySecret(b, saveOk) ==
    IF b.identitySecret # 0
    THEN [b |-> [b EXCEPT !.returned = b.identitySecret], thrown |-> FALSE]
    ELSE LET secret == RandomValue(b.secrets + 1)
         IN  IF saveOk
             THEN [b |-> [b EXCEPT !.identitySecret = secret, !.secretEntry = secret,
                                   !.secrets = @ + 1, !.returned = secret],
                   thrown |-> FALSE]
             ELSE [b |-> [b EXCEPT !.identitySecret = secret, !.secrets = @ + 1],
                   thrown |-> TRUE]

\* the first flow that is not running
FreeFlow ==
    IF \E f \in Flows : client.flows[f].pc = "idle"
    THEN CHOOSE f \in Flows :
            /\ client.flows[f].pc = "idle"
            /\ \A g \in Flows : client.flows[g].pc = "idle" => f <= g
    ELSE 0

\* a click on Accept: handleAccept up to its fetch of the endpoint. The
\* awaits inside generateProof touch nothing another step reads.
HandleAccept(f) ==
    /\ client.display = "block"
    /\ f = FreeFlow
    /\ arrivals < MaxRequests
    /\ \E now \in ClockReadings :
         LET id == GetOrCreateIdentitySecret(client, client.storageOk)
             secret == id.b.identitySecret
             nullifier == PageNullifier(client.circomlib, secret, client.domainSalt)
             commitment == PageCommitment(secret, 255, now)
             out == GenerateProofWith(SaltString(client.domainSalt), nullifier, commitment,
                                      0, 255, now, now, Sentinel, client.artifacts,
                                      client.subtle)
             gen == [called |-> TRUE, saved |-> ~id.thrown,
                     thrown |-> id.thrown \/ out.thrown,
                     mode |-> IF id.thrown THEN "none" ELSE out.mode,
                     body |-> IF id.thrown THEN NoRequest ELSE out.body]
         IN  client' = [id.b EXCEPT
                          !.gen = gen,
                          !.flows[f] = IF gen.thrown THEN IdleFlow
                                       ELSE [IdleFlow EXCEPT !.pc = "proved", !.body = gen.body,
                                                             !.secret = secret]]
    /\ arrivals' = arrivals + 1
    /\ UNCHANGED <<impl, verificationKey, vkeyGlobal, treeState, handlers, last, admitted, past>>

\* handleAccept's fetch: the POST reaches server.js, which answers at once
\* or suspends at groth16.verify
FlowSubmit(f) ==
    /\ client.flows[f].pc = "proved"
    /\ FreeHandler # 0
    /\ \E now \in ClockReadings : NodePost(FreeHandler, client.flows[f].body, now)
    /\ client' = [client EXCEPT !.flows[f] =
                     IF handlers'[FreeHandler].pc = "idle"
                     THEN [@ EXCEPT !.pc = "replied", !.reply = last'.reply]
                     ELSE [@ EXCEPT !.pc = "sent", !.handler = FreeHandler]]
    /\ UNCHANGED <<impl, verificationKey, vkeyGlobal, arrivals>>

\* server.js resumes after groth16.verify and answers the flow that waits
\* (none after a reload)
ServerResume(h) ==
    /\ handlers[h].pc = "verify"
    /\ LET req == handlers[h].req
       IN  Finish(h, req, NodeAfterVerify(treeState, req), TRUE, req.proof = "valid")
    /\ client' = [client EXCEPT !.flows =
                     [f \in Flows |->
                        IF @[f].pc = "sent" /\ @[f].handler = h
                        THEN [@[f] EXCEPT !.pc = "replied", !.reply = last'.reply, !.handler = 0]
                        ELSE @[f]]]
    /\ UNCHANGED <<impl, verificationKey, vkeyGlobal, arrivals>>

\* handleAccept that marks the consent on any response, ok or not
FlowResponseOptimistic(f) ==
    /\ client.flows[f].pc = "replied"
    /\ client' = [client EXCEPT !.hiddenEntry = TRUE, !.display = "none",
                                !.accepted = TRUE, !.flows[f] = IdleFlow]
    /\ UNCHANGED <<impl, verificationKey, vkeyGlobal, treeState, handlers, last, admitted,
                   arrivals, past>>

\* handleAccept after the response: response.ok hides the banner; the
\* nullifier-already-used error asks confirm(), and on yes removes both
\* entries and fetches /reset
FlowResponse(f) ==
    /\ client.flows[f].pc = "replied"
    /\ LET reply == client.flows[f].reply
       IN  IF reply.status = 200
           THEN \* localStorage.setItem throws in a browser that refuses
                \* writes: the catch block alerts, nothing is marked
                IF client.storageOk
                THEN client' = [client EXCEPT !.hiddenEntry = TRUE, !.display = "none",
                                              !.accepted = TRUE, !.flows[f] = IdleFlow]
                ELSE client' = [client EXCEPT !.flows[f] = IdleFlow]
           ELSE IF ErrorText("node", reply.kind) = "Nullifier already used (double-spend detected)"
           THEN \E yes \in BOOLEAN :
                  IF yes /\ client.reset = "none" /\ client.loads < MaxLoads
                  THEN client' = [client EXCEPT
                                    !.hiddenEntry = FALSE, !.secretEntry = 0,
                                    !.erased = IF client.secretEntry = 0 THEN @
                                               ELSE @ \cup {client.secretEntry},
                                    !.reset = "pending",
                                    !.flows[f] = IdleFlow]
                  ELSE client' = [client EXCEPT !.flows[f] = IdleFlow]
           ELSE client' = [client EXCEPT !.flows[f] = IdleFlow]
    /\ UNCHANGED <<impl, verificationKey, vkeyGlobal, treeState, handlers, last, admitted,
                   arrivals, past>>

\* a click on Reject
HandleReject ==
    /\ client.display = "block"
    /\ client' = [client EXCEPT !.display = "none"]
    /\ UNCHANGED <<impl, verificationKey, vkeyGlobal, treeState, handlers, last, admitted,
                   arrivals, past>>

\* window.resetBanner() up to its fetch of /reset
ResetBanner ==
    /\ client.reset = "none"
    /\ client.loads < MaxLoads
    /\ client' = [client EXCEPT
                     !.hiddenEntry = FALSE, !.secretEntry = 0,
                     !.erased = IF client.secretEntry = 0 THEN @
                                ELSE @ \cup {client.secretEntry},
                     !.reset = "pending"]
    /\ UNCHANGED <<impl, verificationKey, vkeyGlobal, treeState, handlers, last, admitted,
                   arrivals, past>>

\* POST /reset reaches server.js, or the fetch fails
ServerReset ==
    /\ client.reset = "pending"
    /\ client' = [client EXCEPT !.reset = "answered"]
    /\ \E ok \in BOOLEAN :
         IF ok
         THEN /\ treeState' = ResetTree(treeState)
              /\ last' = [NoDecision EXCEPT !.reply = Reply(200, "Reset", NoRoot),
                                            !.changed = (treeState' # treeState),
                                            !.treeSize = 0]
              /\ admitted' = <<>>
              /\ handlers' = [h \in Handlers |->
                                [handlers[h] EXCEPT !.rivalN = FALSE, !.rivalR = FALSE]]
         ELSE UNCHANGED <<treeState, last, admitted, handlers>>
    /\ UNCHANGED <<impl, verificationKey, vkeyGlobal, arrivals, past>>

\* location.reload() after the reset's fetch
ReloadAfterReset ==
    /\ client.reset = "answered"
    /\ client' = PageLoad(client)
    /\ UNCHANGED <<impl, verificationKey, vkeyGlobal, treeState, handlers, last, admitted,
                   arrivals, past>>

\* the user loads the page again
Reload ==
    /\ client.reset = "none"
    /\ client.loads < MaxLoads
    /\ client' = PageLoad(client)
    /\ UNCHANGED <<impl, verificationKey, vkeyGlobal, treeState, handlers, last, admitted,
                   arrivals, past>>

InitBrowser ==
    /\ impl = "node"
    /\ verificationKey \in {NoKey, TheKey}
    /\ vkeyGlobal = FALSE
    /\ treeState = EmptyTree
    /\ handlers = [h \in Handlers |-> Idle]
    /\ last = NoDecision
    /\ admitted = <<>>
    /\ arrivals = 0
    /\ past = NoPast
    /\ \E circomlib \in BOOLEAN, artifacts \in BOOLEAN, subtle \in BOOLEAN, storageOk \in BOOLEAN :
          client = NewBrowser(circomlib, artifacts, subtle, storageOk)

NextBrowser ==
    \/ \E f \in Flows : HandleAccept(f)
    \/ \E f \in Flows : FlowSubmit(f)
    \/ \E h \in Handlers : ServerResume(h)
    \/ \E f \in Flows : FlowResponse(f)
    \/ HandleReject
    \/ ResetBanner
    \/ ServerReset
    \/ ReloadAfterReset
    \/ Reload

SpecBrowser == InitBrowser /\ [][NextBrowser]_vars

(* ---------- the two servers side by side on one request sequence -------- *)
\* In the runs of SpecPair treeState is the accumulator of server.js and
\* client.worker that of the worker; both have their key, and each request
\* is handled to its response by both before the next arrives.
PairStart ==
    [pc |-> "pair", worker |-> EmptyTree, nodeReply |-> Reply(0, "none", NoRoot),
     workerReply |-> Reply(0, "none", NoRoot)]

\* one ZK request, POSTed to both servers
PairVerify ==
    /\ client.pc = "pair"
    /\ arrivals < MaxRequests
    /\ \E req \in ZkRequests(arrivals, ClaimableRoots(treeState, ServedRoots)
                                         \cup {client.worker.root}) :
         LET node == NodeAfterVerify(treeState, req)
             worker == WorkerAfterVerify(client.worker, req)
         IN  /\ treeState' = node.ts
             /\ admitted' = IF node.reply.kind = "Admitted"
                            THEN Append(admitted, Admission(req, node.ts))
                            ELSE admitted
             /\ client' = [client EXCEPT !.worker = worker.ts, !.nodeReply = node.reply,
                                         !.workerReply = worker.reply]
    /\ arrivals' = arrivals + 1
    /\ UNCHANGED <<impl, verificationKey, vkeyGlobal, handlers, last, past>>

InitPair ==
    /\ impl = "node"
    /\ verificationKey = TheKey
    /\ vkeyGlobal = TRUE
    /\ treeState = EmptyTree
    /\ handlers = [h \in Handlers |-> Idle]
    /\ last = NoDecision
    /\ admitted = <<>>
    /\ arrivals = 0
    /\ past = NoPast
    /\ client = PairStart

NextPair == PairVerify

SpecPair == InitPair /\ [][NextPair]_vars

(* ------------------ the hashes getPoseidon supplies --------------------- *)
\* the hex characters createFallbackPoseidon keeps
HashHexLength == 32

\* inputs.map(x => x.toString()).join(','), for decimal strings
RECURSIVE JoinComma(_)
JoinComma(inputs) ==
    IF Len(inputs) = 1 THEN inputs[1]
    ELSE JoinComma(SubSeq(inputs, 1, Len(inputs) - 1)) \o <<COMMA>> \o inputs[Len(inputs)]

\* Array.from(data).map(b => b.toString(16).padStart(2, '0')).join(''): the
\* hex digits of the string's bytes
HexOfBytes(str) ==
    [k \in 1..(2 * Len(str)) |->
        IF k % 2 = 1 THEN AsciiByte(str[(k + 1) \div 2]) \div 16
        ELSE AsciiByte(str[k \div 2]) % 16]

\* str.padEnd(n, '0').substring(0, n) on hex digits
PadEndSubstring(hex, n) == SubSeq(hex \o [k \in 1..n |-> 0], 1, n)

\* the function createFallbackPoseidon returns: BigInt('0x' + hashHex). The
\* number is given by its 32 hex digits, the first of which is never 0.
FallbackPoseidon(inputs) == PadEndSubstring(HexOfBytes(JoinComma(inputs)), HashHexLength)

\* the poseidon of circomlib: one number per input tuple
CircomlibPoseidon(inputs) == <<"poseidon", inputs>>

\* the hash of inputs with the function getPoseidon returned
ClientPoseidonHash(circomlib, inputs) ==
    IF circomlib THEN CircomlibPoseidon(inputs) ELSE FallbackPoseidon(inputs)

\* a decimal string of n digits
DigitString(n, seed) == [k \in 1..n |-> IF k = 1 THEN 1 + (seed % 9) ELSE (seed * k + k \div 3) % 10]

\* decimal strings of identity secrets (bytesToBigInt of 32 bytes: up to 78
\* digits, and fewer when the high bytes are 0)
HashSecrets ==
    {DigitString(3, 1), DigitString(14, 2), DigitString(15, 3), DigitString(16, 4),
     DigitString(40, 5), DigitString(77, 6), DigitString(77, 7)}

\* decimal strings of domain salts (8 bytes: up to 20 digits)
HashSalts == {<<0>>, <<1>>, <<2>>, DigitString(19, 1), DigitString(20, 1), DigitString(20, 2)}

\* two generateProof calls of one identity: the salts, and the arguments the
\* nullifier is not computed from
HashInput(circomlib, secret, saltA, saltB) ==
    [pc |-> "inputs", circomlib |-> circomlib, secret |-> secret,
     saltA |-> saltA, saltB |-> saltB, consentA |-> 0, consentB |-> 0,
     nullifierA |-> <<>>, nullifierB |-> <<>>]

\* lines 483-490 of generateProof in both calls
ComputeNullifiers ==
    /\ client.pc = "inputs"
    /\ \E consentA \in ConsentValues, consentB \in ConsentValues :
         client' = [client EXCEPT
                      !.pc = "hashed",
                      !.consentA = consentA, !.consentB = consentB,
                      !.nullifierA = ClientPoseidonHash(client.circomlib, <<client.secret, client.saltA>>),
                      !.nullifierB = ClientPoseidonHash(client.circomlib, <<client.secret, client.saltB>>)]
    /\ UNCHANGED <<impl, verificationKey, vkeyGlobal, treeState, handlers, last, admitted,
                   arrivals, past>>

InitHash ==
    /\ impl = "node"
    /\ verificationKey = NoKey
    /\ vkeyGlobal = FALSE
    /\ treeState = EmptyTree
    /\ handlers = [h \in Handlers |-> Idle]
    /\ last = NoDecision
    /\ admitted = <<>>
    /\ arrivals = 0
    /\ past = NoPast
    /\ \E circomlib \in BOOLEAN, secret \in HashSecrets, saltA \in HashSalts, saltB \in HashSalts :
          client = HashInput(circomlib, secret, saltA, saltB)

NextHash == ComputeNullifiers

SpecHash == InitHash /\ [][NextHash]_vars

(* -------------- the circuit alone: witnesses of consent.circom ---------- *)
\* the 8-bit bitfields oldConsent and newConsent
ConsentBitfields == 0..(2 ^ ConsentBits - 1)

\* values of the signal currentTime: in 1970, in 2025, after 2106 (above
\* 2^32) and above 2^33
CircuitTimes ==
    {Signal(1000000), Signal(1762041600), FieldAdd(Pow2(TimeBits), Signal(70000000)),
     FieldAdd(Pow2(TimeBits + 1), Pow2(TimeBits))}

\* values of currentTime - timestamp: a timestamp one second or one day
\* ahead of currentTime, one given now, ages around TWO_YEARS, and ages
\* around 2^32 and 2^33, where a 32-bit comparison could wrap
CircuitAges ==
    {Signal(-86400), Signal(-1), Signal(0), Signal(1), Signal(TWO_YEARS - 1), Signal(TWO_YEARS),
     Signal(TWO_YEARS + 1), Signal(2 * TWO_YEARS), FieldSub(Pow2(TimeBits), Signal(1)),
     Pow2(TimeBits), FieldAdd(Pow2(TimeBits), Signal(TWO_YEARS)),
     FieldAdd(Pow2(TimeBits), Signal(TWO_YEARS + 1)), Pow2(TimeBits + 1)}

\* the private and public inputs the two comparators read
CircuitInput(oldConsent, newConsent, currentTime, timestamp) ==
    [pc |-> "input", oldConsent |-> oldConsent, newConsent |-> newConsent,
     currentTime |-> currentTime, timestamp |-> timestamp, consentOk |-> FALSE, timeOk |-> FALSE]

\* every pair of bitfields with a fresh timestamp, and a first consent with
\* every time and age
CircuitInputs ==
    {CircuitInput(o, n, Signal(1000000), Signal(1000000)) :
        o \in ConsentBitfields, n \in ConsentBitfields}
    \cup
    {CircuitInput(0, 255, t, FieldSub(t, a)) : t \in CircuitTimes, a \in CircuitAges}

\* witness generation: which of the two comparator constraints hold
CalculateWitness ==
    /\ client.pc = "input"
    /\ client' = [client EXCEPT
                     !.pc = "witness",
                     !.consentOk = ConsentCheck(client.oldConsent, client.newConsent),
                     !.timeOk = TimeCheck(client.currentTime, client.timestamp)]
    /\ UNCHANGED <<impl, verificationKey, vkeyGlobal, treeState, handlers, last, admitted,
                   arrivals, past>>

InitCircuit ==
    /\ impl = "node"
    /\ verificationKey = NoKey
    /\ vkeyGlobal = FALSE
    /\ treeState = EmptyTree
    /\ handlers = [h \in Handlers |-> Idle]
    /\ last = NoDecision
    /\ admitted = <<>>
    /\ arrivals = 0
    /\ past = NoPast
    /\ client \in CircuitInputs

NextCircuit == CalculateWitness

SpecCircuit == InitCircuit /\ [][NextCircuit]_vars

(* ------- two runs of server.js side by side: what the root tells apart ----- *)
\* a third commitment string
CC == <<3, 2, 3, 4, 5, 6, 7, 8, 1>>

TwinCommitments == Commitments \cup {CC}

\* the second run's accumulator
TwinStart == [pc |-> "twin", other |-> EmptyTree]

\* one verified ZK request to each run, each with a fresh nullifier and the
\* sentinel root; the two requests may carry different commitments
TwinVerify ==
    /\ client.pc = "twin"
    /\ arrivals < MaxRequests
    /\ \E c1, c2 \in TwinCommitments :
         LET n    == <<4, arrivals + 1>>
             req1 == ZkRequest("valid", c1, n, Sentinel)
             req2 == ZkRequest("valid", c2, n, Sentinel)
             out1 == NodeAfterVerify(treeState, req1)
             out2 == NodeAfterVerify(client.other, req2)
         IN  /\ treeState' = out1.ts
             /\ admitted' = IF out1.reply.kind = "Admitted"
                            THEN Append(admitted, Admission(req1, out1.ts))
                            ELSE admitted
             /\ client' = [client EXCEPT !.other = out2.ts]
    /\ arrivals' = arrivals + 1
    /\ UNCHANGED <<impl, verificationKey, vkeyGlobal, handlers, last, past>>

InitTwin ==
    /\ impl = "node"
    /\ verificationKey = TheKey
    /\ vkeyGlobal = FALSE
    /\ treeState = EmptyTree
    /\ handlers = [h \in Handlers |-> Idle]
    /\ last = NoDecision
    /\ admitted = <<>>
    /\ arrivals = 0
    /\ past = NoPast
    /\ client = TwinStart

NextTwin == TwinVerify

SpecTwin == InitTwin /\ [][NextTwin]_vars

(* ------- server.js with the request it answered last: what it read --------- *)
\* readings of Math.floor(Date.now() / 1000), later than TWO_YEARS
LogClocks == {100000000}

\* the request answered last, the clock reading its handler took, and
\* whether groth16.verify was called for it; clock is the reading taken by
\* the handler in flight
LogStart == [pc |-> "log", req |-> NoRequest, now |-> 0, called |-> FALSE, clock |-> 0]

\* (currentTime, timestamp) a prover feeds its witness: the present, an old
\* consent under the present clock, and an old consent under an equally old
\* clock
ProverTimes(now) ==
    { <<now, now>>, <<now, BigInt(CurrentTimeSignal)>>,
      <<BigInt(CurrentTimeSignal), BigInt(CurrentTimeSignal)>> }

\* a ZK request over publicSignals[0] = currentTime: groth16.fullProve gives
\* a proof only when the circuit's constraints hold, so any other proof sent
\* with these signals does not verify
TimedRequest(currentTime, timestamp, c, n) ==
    Request("POST", "json",
            IF FullProveSucceeds(0, 255, currentTime, timestamp) THEN "valid" ELSE "invalid",
            TRUE, <<NumToString(currentTime), DomainSalt, c, n, Sentinel>>, NoOffchain)

\* bodies with an offchain object beside a proof field
MixedRequests(sent, now) ==
    {OffchainRequest(v, DomainSalt, CA, n, Sentinel, n, CA, GoodSignature, <<now>>) :
        v \in {"valid", "invalid", "malformed"}, n \in NullifiersFor(sent)}

LogRequests(sent, roots, now) ==
    NodeRequests(sent, roots, now)
    \cup MixedRequests(sent, now)
    \cup {TimedRequest(t[1], t[2], CA, n) : t \in ProverTimes(now), n \in NullifiersFor(sent)}

\* POST /verify, received while no other request is in flight
LogPost(h) ==
    /\ client.pc = "log"
    /\ h = FreeHandler
    /\ \A g \in Handlers : handlers[g].pc = "idle"
    /\ arrivals < MaxRequests
    /\ \E now \in LogClocks :
       \E req \in LogRequests(arrivals, ClaimableRoots(treeState, ServedRoots), now) :
         /\ NodePost(h, req, now)
         /\ client' = IF handlers'[h].pc = "verify"
                      THEN [client EXCEPT !.clock = now]
                      ELSE [client EXCEPT !.req = req, !.now = now, !.called = FALSE,
                                          !.clock = now]
    /\ arrivals' = arrivals + 1
    /\ UNCHANGED <<impl, verificationKey, vkeyGlobal>>

\* POST /verify after await groth16.verify
LogResume(h) ==
    /\ client.pc = "log"
    /\ handlers[h].pc = "verify"
    /\ LET req == handlers[h].req
       IN  Finish(h, req, NodeAfterVerify(treeState, req), TRUE, req.proof = "valid")
    /\ client' = [client EXCEPT !.req = handlers[h].req, !.now = client.clock,
                                !.called = TRUE]
    /\ UNCHANGED <<impl, verificationKey, vkeyGlobal, arrivals>>

InitLog ==
    /\ impl = "node"
    /\ verificationKey \in {NoKey, TheKey}
    /\ vkeyGlobal = FALSE
    /\ treeState = EmptyTree
    /\ handlers = [h \in Handlers |-> Idle]
    /\ last = NoDecision
    /\ admitted = <<>>
    /\ arrivals = 0
    /\ past = NoPast
    /\ client = LogStart

NextLog == \E h \in Handlers : LogPost(h) \/ LogResume(h)

SpecLog == InitLog /\ [][NextLog]_vars

(* ------------- getPoseidon and its callers within one page -------------- *)
\* the poseidonHash calls of one page session, each awaiting getPoseidon
PoseidonCalls == {1, 2, 3}

\* a call that has not started
IdleCall == [pc |-> "idle", fn |-> "null", hash |-> <<>>]

\* the module state of zk.ts and the inputs of the calls:
\* poseidonHashFn      "null", "circomlib" or "fallback"
\* poseidonInitialized the flag getPoseidon sets before its import
\* circomlib           import('circomlib') gives a poseidon
\* secret, salt        identitySecret and domainSalt, the inputs of each call
\* calls               pc "idle", "import" (awaiting the import) or "done";
\*                     fn the function getPoseidon returned, hash its value
ModuleStart(circomlib, secret, salt) ==
    [pc |-> "module", poseidonHashFn |-> "null", poseidonInitialized |-> FALSE,
     circomlib |-> circomlib, secret |-> secret, salt |-> salt,
     calls |-> [c \in PoseidonCalls |-> IdleCall]]

\* the call's result once getPoseidon has returned fn: poseidon(bigintInputs)
CallDone(m, fn) ==
    [pc |-> "done", fn |-> fn,
     hash |-> ClientPoseidonHash(fn = "circomlib", <<m.secret, m.salt>>)]

\* getPoseidon from its call to its first await or its return
GetPoseidonEnter(m, c) ==
    IF m.poseidonHashFn # "null"
    THEN [m EXCEPT !.calls[c] = CallDone(m, m.poseidonHashFn)]
    ELSE IF m.poseidonInitialized
    THEN [m EXCEPT !.poseidonHashFn = "fallback", !.calls[c] = CallDone(m, "fallback")]
    ELSE [m EXCEPT !.poseidonInitialized = TRUE, !.calls[c].pc = "import"]

\* getPoseidon after await import('circomlib')
GetPoseidonImported(m, c) ==
    LET fn == IF m.circomlib THEN "circomlib" ELSE "fallback"
    IN  [m EXCEPT !.poseidonHashFn = fn, !.calls[c] = CallDone(m, fn)]

\* poseidonHash call c starts and runs up to getPoseidon's await or return
GetPoseidon(c) ==
    /\ client.pc = "module"
    /\ client.calls[c].pc = "idle"
    /\ client' = GetPoseidonEnter(client, c)
    /\ UNCHANGED <<impl, verificationKey, vkeyGlobal, treeState, handlers, last, admitted,
                   arrivals, past>>

\* the import of call c settles
ImportSettles(c) ==
    /\ client.pc = "module"
    /\ client.calls[c].pc = "import"
    /\ client' = GetPoseidonImported(client, c)
    /\ UNCHANGED <<impl, verificationKey, vkeyGlobal, treeState, handlers, last, admitted,
                   arrivals, past>>

InitPoseidon ==
    /\ impl = "node"
    /\ verificationKey = NoKey
    /\ vkeyGlobal = FALSE
    /\ treeState = EmptyTree
    /\ handlers = [h \in Handlers |-> Idle]
    /\ last = NoDecision
    /\ admitted = <<>>
    /\ arrivals = 0
    /\ past = NoPast
    /\ \E circomlib \in BOOLEAN, secret \in HashSecrets, salt \in HashSalts :
          client = ModuleStart(circomlib, secret, salt)

NextPoseidon == \E c \in PoseidonCalls : GetPoseidon(c) \/ ImportSettles(c)

SpecPoseidon == InitPoseidon /\ [][NextPoseidon]_vars

(* ------------------------------- claims -------------------------------- *)
\* the last response answers a POST /verify
Answered == last.reply.kind \notin {"none", "Health", "Reset", "Preflight", "MethodNotAllowed"}

AdmittedNullifiers == {admitted[k].nullifier : k \in 1..Len(admitted)}

AdmittedCommitments == {admitted[k].commitment : k \in 1..Len(admitted)}

\* C1: between resets at most one request per nullifier is admitted: the
\* admitted transitions carry pairwise different nullifiers, each of them is
\* recorded, a request whose nullifier was admitted before is never admitted,
\* and when its proof verifies it is answered 400 with the server's
\* nullifier-already-used error (which the worker words together with its
\* other rejections), whatever its commitment.
C1_NullifierAdmittedOnce ==
    /\ \A j, k \in 1..Len(admitted) :
          j # k => admitted[j].nullifier # admitted[k].nullifier
    /\ AdmittedNullifiers \subseteq treeState.nullifiers
    /\ (Answered /\ last.replayed) => last.reply.kind # "Admitted"
    /\ (Answered /\ last.verified /\ last.replayed) =>
          /\ last.reply.kind = "NullifierReused"
          /\ last.reply.status = 400
          /\ ErrorText(impl, last.reply.kind) \in
                {"Nullifier already used (double-spend detected)",
                 "Proof verification failed or nullifier already used"}

\* a replay of the first admitted nullifier, with another commitment and
\* after another transition was admitted in between, was rejected
C1_Witness ==
    /\ Len(admitted) >= 2
    /\ last.reply.kind = "NullifierReused"
    /\ last.nullifier = admitted[1].nullifier
    /\ last.commitment # admitted[1].commitment

\* C2: of two requests with one nullifier in flight together, the one that
\* resumes after the other's admission is rejected as a reuse (never both
\* admitted), and a request is rejected as a reuse only when a transition with
\* its nullifier was admitted (never both rejected with none admitted).
C2_ConcurrentSameNullifier ==
    /\ (Answered /\ last.rivalN /\ last.verified) => last.reply.kind = "NullifierReused"
    /\ last.reply.kind = "NullifierReused" => last.replayed
    /\ \A h \in Handlers : handlers[h].out.rivalN => handlers[h].out.reply.kind # "Admitted"

\* a request was rejected as a reuse on account of a request admitted while
\* it was suspended
C2_Witness == last.rivalN /\ last.verified /\ last.reply.kind = "NullifierReused"

\* C3: of two requests in flight together, with different nullifiers and
\* commitments and the same non-sentinel claimed root, at most one is
\* admitted.
C3_OneAdmissionPerRoot ==
    /\ ~(last.reply.kind = "Admitted" /\ last.rivalR)
    /\ \A h \in Handlers : ~(handlers[h].out.reply.kind = "Admitted" /\ handlers[h].out.rivalR)

\* C4: a verified request with an unused nullifier is admitted (200) if its
\* claimed root is '0' or the current root, and is rejected with 400 'Merkle
\* root mismatch' otherwise.
C4_RootCheck ==
    (Answered /\ last.verified /\ ~last.replayed) =>
        /\ last.rootOK => (last.reply.kind = "Admitted" /\ last.reply.status = 200)
        /\ ~last.rootOK =>
              /\ last.reply.kind = "RootMismatch"
              /\ last.reply.status = 400
              /\ impl = "node" => ErrorText(impl, last.reply.kind) = "Merkle root mismatch"

\* on a non-empty tree a request claiming '00' was rejected for its root
C4_Witness ==
    /\ last.reply.kind = "RootMismatch"
    /\ last.claimedRoot = DoubleZero
    /\ treeState.root # Sentinel

\* C5: a verified request with an unused nullifier whose claimed root was
\* the root before an earlier admission is rejected as stale.
C5_StaleRootRejected ==
    (Answered /\ last.verified /\ ~last.replayed /\ last.stale)
        => last.reply.kind = "RootMismatch"

\* C6: a POST /verify that is not admitted leaves treeState as it was.
C6_RejectionFrame ==
    (Answered /\ last.reply.kind # "Admitted") => ~last.changed

\* a request was answered 500 on a non-empty tree
C6_Witness ==
    /\ last.reply.status = 500
    /\ treeState.root # Sentinel
    /\ treeState.nullifiers # {}

C8_AtomicAdmission ==
    /\ treeState.nullifiers = AdmittedNullifiers
    /\ DOMAIN treeState.leaves = AdmittedCommitments
    /\ Len(admitted) > 0 => treeState.root = admitted[Len(admitted)].root
    /\ \A d \in {last} \cup {handlers[h].out : h \in Handlers} :
          d.reply.kind = "Admitted" =>
             /\ d.reply.status = 200
             /\ \E k \in 1..Len(admitted) :
                   /\ admitted[k].nullifier = d.nullifier
                   /\ admitted[k].commitment = d.commitment
                   /\ admitted[k].root = d.reply.root

\* a success response was sent after a later admission changed the root
C8_Witness ==
    /\ last.reply.kind = "Admitted"
    /\ Len(admitted) >= 2
    /\ last.reply.root # treeState.root

\* C9: the number of leaves is the number of admitted transitions and the
\* size of the nullifier set, and GET /health reports it.
C9_LeafPerAdmission ==
    /\ LeavesSize(treeState) = Len(admitted)
    /\ LeavesSize(treeState) = Cardinality(treeState.nullifiers)
    /\ last.reply.kind = "Health" => last.treeSize = Len(admitted)

RECURSIVE Replay(_, _)
\* the accumulator an empty server holds after inserting the commitments of
\* history in order
Replay(i, history) ==
    IF history = <<>> THEN EmptyTree
    ELSE UpdateMerkleTree(i, Replay(i, SubSeq(history, 1, Len(history) - 1)),
                          history[Len(history)])

\* C10: the root (and the leaves) are those an empty server reaches by
\* inserting the admitted commitments in order: the root is a function of
\* the insertion history since start or reset.
C10_RootDeterminedByHistory ==
    LET fresh == Replay(impl, [k \in 1..Len(admitted) |-> admitted[k].commitment])
    IN  /\ treeState.root = fresh.root
        /\ treeState.leaves = fresh.leaves

\* the Node server inserted two different commitments and answered a third
\* request before the second admission
C10_Witness ==
    /\ Len(admitted) = 2
    /\ admitted[1].commitment # admitted[2].commitment
    /\ arrivals > Len(admitted)
    /\ last.reply.kind = "Admitted"
    /\ impl = "node"

\* the bytes the worker's poseidonHash read for a root it produced
WorkerRootBytes(root) == [k \in 1..(Len(root) - 1) |-> AsciiByte(root[k + 1])]

\* C11: the root is '0' exactly while nothing has been inserted since start or
\* reset; the root an admission returns is not '0' (in the worker: the bytes
\* it hashes are not all zero), and a verified first-time consent (claimed
\* root '0', unused nullifier) is admitted.
C11_RootNonZeroAfterAdmission ==
    /\ treeState.root = Sentinel <=> admitted = <<>>
    /\ treeState.root = Sentinel <=> LeavesSize(treeState) = 0
    /\ \A d \in {last} \cup {handlers[h].out : h \in Handlers} :
          d.reply.kind = "Admitted" =>
             /\ d.reply.root # Sentinel
             /\ impl = "worker" =>
                   \E k \in 1..(Len(d.reply.root) - 1) : WorkerRootBytes(d.reply.root)[k] # 0
    /\ (Answered /\ last.verified /\ ~last.replayed /\ last.claimedRoot = Sentinel)
          => (last.reply.kind = "Admitted" /\ last.reply.root # Sentinel)

\* a first-time consent was admitted on the empty accumulator
C11_Witness ==
    /\ last.reply.kind = "Admitted"
    /\ last.claimedRoot = Sentinel
    /\ Len(admitted) = 1
    /\ treeState.root = last.reply.root

\* C12: a rejection does not consume the nullifier: a verified request whose
\* nullifier was rejected before for its proof or its root, and was not
\* admitted since, is admitted when it claims '0' or the current root; and
\* no nullifier is recorded that was not admitted.
C12_RejectionKeepsNullifierFree ==
    /\ (/\ Answered /\ last.verified /\ last.rootOK /\ ~last.replayed
        /\ last.nullifier \in past.rejected)
          => (last.reply.kind = "Admitted" /\ last.reply.status = 200)
    /\ \A n \in past.rejected : n \in treeState.nullifiers => n \in AdmittedNullifiers

\* a request was admitted with a nullifier that an earlier request was
\* rejected with, while another nullifier had been admitted
C12_Witness ==
    /\ last.reply.kind = "Admitted"
    /\ last.nullifier \in past.rejected
    /\ Len(admitted) = 2
    /\ admitted[2].nullifier = last.nullifier

\* C13: a request without a proof (ZK proof or offchain attestation), or
\* whose publicSignals are absent or not five well-typed values, is rejected
\* as malformed (400, before any verification) and is not admitted.
C13_MalformedRejected ==
    (Answered /\ last.malformed) =>
        (last.reply.kind \in {"Missing", "NoProof"} /\ last.reply.status = 400)

\* C14: the status classifies the outcome: 200 exactly for an admission, 400
\* for every rejection of the request, and 500 only for an internal failure
\* (of the failures the servers can meet, the unloadable verification key):
\* no request-caused failure is answered 500, no internal one 400.
C14_StatusClassifiesOutcome ==
    Answered =>
        /\ last.reply.status = 200 <=> last.reply.kind = "Admitted"
        /\ last.reply.kind \in {"Missing", "NoProof", "OffchainFailed", "ZKFailed", "ZKError",
                                "NullifierReused", "RootMismatch"} => last.reply.status = 400
        /\ last.reply.status = 500 <=> last.reply.kind = "KeyError"
        /\ last.reply.status \in {200, 400, 500}

\* C15: POST /reset leaves the empty state (root '0', no leaves, no
\* nullifiers), whatever the state before; a verified request with the
\* sentinel root whose nullifier was admitted before the reset, and not
\* since, is admitted again.
C15_ResetReturnsToEmpty ==
    /\ last.reply.kind = "Reset" =>
          /\ treeState = EmptyTree
          /\ treeState.root = Sentinel /\ LeavesSize(treeState) = 0 /\ treeState.nullifiers = {}
          /\ last.treeSize = 0
    /\ (/\ Answered /\ last.verified /\ ~last.replayed /\ last.claimedRoot = Sentinel
        /\ last.nullifier \in past.before)
          => (last.reply.kind = "Admitted" /\ last.reply.status = 200)

\* a nullifier admitted before a reset was admitted again after it
C15_Witness ==
    /\ last.reply.kind = "Admitted"
    /\ last.nullifier \in past.before
    /\ last.claimedRoot = Sentinel
    /\ Len(admitted) = 1

\* C16: the nullifier set only grows between resets: a step that admits a
\* request adds exactly that request's (new) nullifier, and every other step
\* that changes the set is a POST /reset, which empties it.
C16_NullifiersGrowOnly ==
    [][ IF Len(admitted') = Len(admitted) + 1
        THEN /\ admitted'[Len(admitted')].nullifier \notin treeState.nullifiers
             /\ treeState'.nullifiers =
                   treeState.nullifiers \cup {admitted'[Len(admitted')].nullifier}
        ELSE \/ treeState'.nullifiers = treeState.nullifiers
             \/ /\ last'.reply.kind = "Reset"
                /\ treeState'.nullifiers = {} ]_vars

\* two nullifiers are recorded and a request has just been rejected
C16_Witness ==
    /\ Cardinality(treeState.nullifiers) = 2
    /\ Answered
    /\ last.reply.status = 400
    /\ last.nullifier \notin treeState.nullifiers
    /\ last.nullifier # Undefined

\* C17: a downgrade fails closed: no call of generateProof with newConsent <
\* oldConsent yields a proof object that the server admits.
C17_DowngradeFailsClosed ==
    (client.pc = "done" /\ client.newConsent < client.oldConsent)
        => client.reply.kind # "Admitted"

\* C18: for all 8-bit oldConsent and newConsent the monotonicity constraint
\* (GreaterEqThan(8) with its output forced to 1) has a solution exactly when
\* newConsent >= oldConsent: none when newConsent < oldConsent.
C18_MonotonicityConstraint ==
    client.pc = "witness" =>
        (client.consentOk <=> client.newConsent >= client.oldConsent)

\* the downgrade 255 -> 1 had no witness
C18_Witness ==
    /\ client.pc = "witness"
    /\ client.oldConsent = 255
    /\ client.newConsent = 1
    /\ ~client.consentOk

\* bit k of an 8-bit bitfield
ConsentBit(bits, k) == (bits \div (2 ^ k)) % 2

\* every category set in old is set in new
BitwiseSuperset(new, old) ==
    \A k \in 0..(ConsentBits - 1) : ConsentBit(old, k) = 1 => ConsentBit(new, k) = 1

\* C19: consent scope never contracts: every pair (oldConsent, newConsent)
\* that satisfies the transition predicate has every bit of oldConsent set
\* in newConsent.
C19_ScopeNeverContracts ==
    (client.pc = "witness" /\ client.consentOk) =>
        BitwiseSuperset(client.newConsent, client.oldConsent)

\* a signal that is a number of seconds, not a wrapped negative
IsSeconds(x) == x.hi >= 0

SignalGreater(a, b) == a.hi > b.hi \/ (a.hi = b.hi /\ a.lo > b.lo)

ConsentAge == FieldSub(client.currentTime, client.timestamp)

\* C20: for every currentTime and timestamp with currentTime - timestamp >
\* 63072000 the freshness constraint (LessEqThan(32) with its output forced
\* to 1) has no solution.
C20_StaleConsentUnsatisfiable ==
    (/\ client.pc = "witness"
     /\ IsSeconds(client.currentTime)
     /\ IsSeconds(client.timestamp)
     /\ SignalGreater(ConsentAge, Signal(TWO_YEARS))) => ~client.timeOk

\* a consent one second older than two years had no witness
C20_Witness ==
    /\ client.pc = "witness"
    /\ IsSeconds(client.timestamp)
    /\ ConsentAge = Signal(TWO_YEARS + 1)
    /\ ~client.timeOk

\* C21: the freshness check does not underflow: for every timestamp later
\* than currentTime the constraint on currentTime - timestamp has no
\* solution.
C21_FutureTimestampUnsatisfiable ==
    (/\ client.pc = "witness"
     /\ IsSeconds(client.currentTime)
     /\ IsSeconds(client.timestamp)
     /\ SignalGreater(client.timestamp, client.currentTime)) => ~client.timeOk

\* C23: proof verification never throws to its caller: when groth16.verify
\* raises an exception the handler that awaited it answers with a 400
\* rejection and leaves the accumulator as it was, and verifyProof gives
\* false; no 500 and no admission.
C23_VerifyNeverThrows ==
    [][\A h \in Handlers :
          (/\ handlers[h].pc = "verify"
           /\ handlers[h].req.proof = "malformed"
           /\ handlers'[h].pc # "verify")
          => /\ handlers'[h].pc = "idle"
             /\ last'.reply.status = 400
             /\ last'.reply.kind \notin {"Admitted", "Internal"}
             /\ treeState' = treeState
             /\ admitted' = admitted
             /\ ~VerifyProof(handlers[h].req.proof)]_vars

\* a verification that threw was answered 400 after an admission had filled
\* the accumulator
C23_Witness ==
    /\ last.reply.kind = "ZKError"
    /\ last.reply.status = 400
    /\ Len(admitted) >= 1
    /\ treeState.root # Sentinel

\* the proof object is an offchain attestation: five publicSignals, the
\* offchain fields, no proof
IsAttestation(body) ==
    /\ body.proof = "absent"
    /\ body.hasPS
    /\ Len(body.publicSignals) = 5
    /\ \A k \in 1..5 : body.publicSignals[k] # Undefined
    /\ body.offchain.present
    /\ body.offchain.nullifier # Undefined
    /\ body.offchain.commitment # Undefined
    /\ body.offchain.signature # Undefined
    /\ body.offchain.timestamp # <<>>

C24_SecretNeverRegenerated ==
    [][(/\ client.pc = "page"
        /\ arrivals' # arrivals
        /\ client.secretEntry # 0)
       => /\ client'.returned = client.secretEntry
          /\ client'.secretEntry = client.secretEntry
          /\ client'.secrets = client.secrets]_vars

\* on the second page load a call returned the secret stored on the first
C24_Witness ==
    /\ client.pc = "page"
    /\ client.loads = 2
    /\ client.secrets = 1
    /\ client.secretEntry = 1
    /\ client.returned = 1
    /\ \E f \in Flows : client.flows[f].pc = "proved" /\ client.flows[f].secret = 1

\* C25: after the reset flow removed the identity's localStorage entry, no
\* getOrCreateIdentitySecret call returns the erased secret: the next call
\* returns a newly generated one.
C25_ErasedSecretNeverReturned ==
    [][(/\ client.pc = "page"
        /\ arrivals' # arrivals
        /\ ~client'.gen.thrown)
       => client'.returned \notin client.erased]_vars

\* C26: at most one accept flow is in flight per banner.
C26_OneAcceptInFlight ==
    client.pc = "page" =>
        Cardinality({f \in Flows : client.flows[f].pc # "idle"}) <= 1

\* (history) the number of the secret a page's nullifier was computed from
SecretOfNullifier(nullifier) == nullifier[2]

\* C27: for one identity secret, across page loads and Accept actions and
\* with no reset, the server admits at most one transition.
C27_OncePerUserPerDomain ==
    client.pc = "page" =>
        \A j, k \in 1..Len(admitted) :
            SecretOfNullifier(admitted[j].nullifier) = SecretOfNullifier(admitted[k].nullifier)
                => j = k

\* C30: on a page load that finds zkcookies_banner_hidden = 'true' the
\* banner is not displayed.
C30_BannerStaysHidden ==
    (client.pc = "page" /\ client.hiddenAtLoad) => client.display # "block"

\* C28: for one identity secret the nullifier is a function of domainSalt
\* alone, whatever the consent and the times, and two different salts give
\* two different nullifiers, with the poseidon of circomlib and with the
\* fallback hash.
C28_NullifierPerDomain ==
    client.pc = "hashed" =>
        (client.nullifierA = client.nullifierB <=> client.saltA = client.saltB)

\* C29: server.js and the worker are interchangeable: from the empty state
\* and on the same sequence of ZK requests they admit and reject the same
\* requests and hold the same root after every admission.
C29_ServersInterchangeable ==
    client.pc = "pair" =>
        /\ client.nodeReply.kind = "Admitted" <=> client.workerReply.kind = "Admitted"
        /\ treeState.root = client.worker.root

\* C31: the root authenticates the whole set of admitted commitments: two
\* reachable states of the server with the same root have inserted the same
\* commitments in the same order (the leaves map of one is that of the
\* other), the hash being injective.
C31_RootAuthenticatesSet ==
    (client.pc = "twin" /\ treeState.root = client.other.root) =>
        treeState.leaves = client.other.leaves

\* the last response answers the request the log holds
LogAnswered == client.pc = "log" /\ client.req.method = "POST" /\ Answered

\* C32: on the Node server the offchain branch takes precedence: for a body
\* with an offchain object groth16.verify is never called, whatever its proof
\* field and whether or not a verification key is loaded, and the request is
\* admitted exactly when the offchain checks pass, its nullifier is unused
\* and its claimed root is acceptable.
C32_OffchainTakesPrecedence ==
    /\ \A h \in Handlers :
          handlers[h].pc = "verify" => ~handlers[h].req.offchain.present
    /\ (LogAnswered /\ client.req.hasPS /\ client.req.offchain.present) =>
          /\ ~client.called
          /\ last.reply.kind \in {"Internal", "OffchainFailed", "NullifierReused",
                                  "RootMismatch", "Admitted"}
          /\ (last.reply.kind = "Admitted") <=>
                (last.verified /\ ~last.replayed /\ last.rootOK)

\* with a key loaded, a body with an offchain object and a proof that does
\* not verify was admitted without a call of groth16.verify
C32_Witness ==
    /\ LogAnswered
    /\ verificationKey = TheKey
    /\ client.req.offchain.present
    /\ client.req.proof = "invalid"
    /\ ~client.called
    /\ last.reply.kind = "Admitted"

\* C33: for every admitted request, in ZK mode and in offchain mode alike,
\* the nullifier recorded is publicSignals[3] of the request and the
\* commitment inserted is its publicSignals[2].
C33_RecordedValuesArePublicSignals ==
    (LogAnswered /\ last.reply.kind = "Admitted") =>
        LET a == admitted[Len(admitted)]
        IN  /\ a.nullifier = client.req.publicSignals[4]
            /\ a.commitment = client.req.publicSignals[3]
            /\ client.req.publicSignals[4] \in treeState.nullifiers
            /\ client.req.publicSignals[3] \in DOMAIN treeState.leaves

\* C34: every transition admitted in ZK mode has a currentTime public signal
\* (publicSignals[0]) that matches the server's clock at admission, to within
\* the clock skew the server allows elsewhere.
C34_CurrentTimeIsServerTime ==
    (LogAnswered /\ last.reply.kind = "Admitted" /\ ~client.req.offchain.present) =>
        Abs(BigInt(client.req.publicSignals[1]) - client.now) <= ClockSkewLimit

\* C35: an offchain request is admitted only if its offchain.timestamp lies
\* within 86400 seconds of the server's clock, its commitment and nullifier
\* parse as non-zero integers and its signature is a string of at least 16
\* characters; a request whose timestamp is missing or further away is
\* answered 400 'Offchain proof verification failed'.
C35_OffchainChecks ==
    (LogAnswered /\ client.req.hasPS /\ client.req.offchain.present) =>
        LET off     == client.req.offchain
            missing == off.timestamp = <<>>
            far     == ~missing /\ Abs(client.now - off.timestamp[1]) > ClockSkewLimit
        IN  /\ (last.reply.kind = "Admitted") =>
                  /\ ~missing /\ ~far
                  /\ ~BigIntThrows(off.commitment) /\ BigInt(off.commitment) # 0
                  /\ ~BigIntThrows(off.nullifier) /\ BigInt(off.nullifier) # 0
                  /\ off.signature # Undefined /\ Len(off.signature) >= 16
            /\ (missing \/ far) =>
                  /\ last.reply.status = 400
                  /\ ErrorText("node", last.reply.kind) = "Offchain proof verification failed"

\* handleAccept activation f receives a response with an ok status (the
\* page is not loaded anew in that step)
OkResponse(f) ==
    /\ client.flows[f].pc = "replied"
    /\ client.flows[f].reply.status = 200
    /\ client'.flows[f].pc = "idle"
    /\ client'.loads = client.loads

\* handleAccept activation f receives a response without an ok status
FailedResponse(f) ==
    /\ client.flows[f].pc = "replied"
    /\ client.flows[f].reply.status # 200
    /\ client'.flows[f].pc = "idle"
    /\ client'.loads = client.loads

\* a click on Accept whose generateProof throws
ThrownAccept == arrivals' = arrivals + 1 /\ client'.gen.thrown

\* C36: the client marks consent as given only after the server confirmed
\* it: 'zkcookies_banner_hidden' is set and onAccept invoked only in the
\* step of an accept flow that has received an ok /verify response, in which
\* the banner is hidden too; in a step where generateProof throws or the
\* response is not ok, the entry is not set, the banner's display does not
\* change and onAccept is not invoked.
C36_MarkedOnlyAfterOk ==
    [][client.pc = "page" =>
         /\ ((client'.hiddenEntry /\ ~client.hiddenEntry)
              \/ (client'.accepted /\ ~client.accepted)) =>
                \E f \in Flows : OkResponse(f) /\ client'.display = "none"
         /\ (ThrownAccept \/ \E f \in Flows : FailedResponse(f)) =>
                /\ client'.hiddenEntry => client.hiddenEntry
                /\ client'.display = client.display
                /\ client'.accepted = client.accepted]_vars

\* after an admitted request the entry is set, the banner hidden and
\* onAccept invoked, and no accept flow is running
C36_Witness ==
    /\ client.pc = "page"
    /\ last.reply.kind = "Admitted"
    /\ client.hiddenEntry /\ client.display = "none" /\ client.accepted
    /\ \A f \in Flows : client.flows[f].pc = "idle"

\* C37: within one page session getPoseidon hands out a single hash
\* function: under every interleaving of its calls, all calls that returned
\* got the same function, and so computed the same nullifier from the same
\* identitySecret and domainSalt.
C37_SingleHashFunction ==
    client.pc = "module" =>
        \A c, d \in PoseidonCalls :
            (client.calls[c].pc = "done" /\ client.calls[d].pc = "done") =>
                /\ client.calls[c].fn = client.calls[d].fn
                /\ client.calls[c].hash = client.calls[d].hash

\* C38: the in-memory identity and the persisted identity never diverge:
\* whenever hasIdentitySecret() is true, localStorage holds the same secret
\* under 'zkcookies_identity_secret'; and after a getOrCreateIdentitySecret
\* call that threw because the new secret could not be persisted, the
\* instance has no in-memory secret.
C38_IdentityNeverDiverges ==
    client.pc = "page" =>
        /\ client.identitySecret # 0 => client.secretEntry = client.identitySecret
        /\ (client.gen.called /\ ~client.gen.saved) => client.identitySecret = 0

====
